---------------------------- MODULE Spec2Model ----------------------------
(***************************************************************************)
(* Fuzzy address matching and ranking of kalmykovgroup/best_hack25:        *)
(*   - FastAddressCorrector (address-corrector/fast_corrector.py)          *)
(*   - AdvancedSearchEngine (geocode-service/advanced_search.py)           *)
(*   - GeocodeServicer      (geocode-service/server.py)                    *)
(*                                                                         *)
(* A string is a sequence of characters.  A character is written as the    *)
(* one-element name of a letter of the source alphabet:                    *)
(*   "a" = 'а', "b" = 'б', "o" = 'о', "A" = 'А' (upper case of 'а'),       *)
(*   "sh" = 'ш' (the one-letter street prefix of the source lists),        *)
(*   "1" = a digit, " " = blank, "," and "-" = punctuation.                *)
(* Floating point values are kept as exact fractions <<num, den>>, den > 0.*)
(***************************************************************************)
EXTENDS Integers, Sequences, FiniteSets, TLC

(***************************************************************************)
(* Bounds of the model                                                     *)
(***************************************************************************)
MaxLimit == 2

(***************************************************************************)
(* Exact fractions                                                         *)
(***************************************************************************)
RECURSIVE Gcd(_, _)
Gcd(x, y) == IF y = 0 THEN x ELSE Gcd(y, x % y)

Abs(x) == IF x < 0 THEN 0 - x ELSE x

\* the fraction n/d in lowest terms
Reduce(n, d) ==
    LET g == Gcd(Abs(n), d)
    IN  <<n \div g, d \div g>>

RLeq(x, y) == x[1] * y[2] <= y[1] * x[2]
RLt(x, y) == x[1] * y[2] < y[1] * x[2]
REq(x, y) == x[1] * y[2] = y[1] * x[2]
RMax(x, y) == IF RLeq(x, y) THEN y ELSE x
RMin(x, y) == IF RLeq(x, y) THEN x ELSE y
RAdd(x, y) == Reduce(x[1] * y[2] + y[1] * x[2], x[2] * y[2])
RMul(x, y) == Reduce(x[1] * y[1], x[2] * y[2])
ROne == <<1, 1>>
RZero == <<0, 1>>

Max2(x, y) == IF x >= y THEN x ELSE y
Min2(x, y) == IF x <= y THEN x ELSE y

(***************************************************************************)
(* Characters and Python string primitives                                 *)
(***************************************************************************)
IsSpace(c) == c = " "
IsDigit(c) == c = "1"
IsAlnum(c) == c \in {"a", "b", "o", "A", "sh", "1"}

\* str.lower(): Unicode aware, folds 'А' to 'а'
PyLowerChar(c) == IF c = "A" THEN "a" ELSE c
PyLower(s) == [i \in 1..Len(s) |-> PyLowerChar(s[i])]

\* SQLite LOWER(): folds ASCII letters only, Cyrillic letters are unchanged
SqlLower(s) == s

Take(s, n) == SubSeq(s, 1, Min2(n, Len(s)))

RECURSIVE SplitAcc(_, _, _)
SplitAcc(s, cur, acc) ==
    IF s = <<>>
    THEN IF cur = <<>> THEN acc ELSE Append(acc, cur)
    ELSE IF IsSpace(Head(s))
         THEN SplitAcc(Tail(s), <<>>, IF cur = <<>> THEN acc ELSE Append(acc, cur))
         ELSE SplitAcc(Tail(s), Append(cur, Head(s)), acc)

\* str.split(): the maximal runs of non-blank characters
Split(s) == SplitAcc(s, <<>>, <<>>)

RECURSIVE Join(_)
\* ' '.join(words)
Join(words) ==
    IF words = <<>> THEN <<>>
    ELSE IF Len(words) = 1 THEN words[1]
    ELSE words[1] \o <<" ">> \o Join(Tail(words))

\* str.strip() following re.sub(r'\s+', ' ', text): one blank between words
CollapseStrip(s) == Join(Split(s))

IsPrefixOf(p, w) == Len(p) <= Len(w) /\ SubSeq(w, 1, Len(p)) = p

\* x in y for Python strings
Contains(y, x) ==
    \E i \in 0..(Len(y) - Len(x)) : SubSeq(y, i + 1, i + Len(x)) = x

(***************************************************************************)
(* Levenshtein.distance: dynamic programme, one row at a time              *)
(***************************************************************************)
Min3(x, y, z) == Min2(x, Min2(y, z))

RECURSIVE LevRowFill(_, _, _, _, _)
\* cur holds the first j cells of the row; the row is full at Len(t) + 1 cells
LevRowFill(prev, c, t, j, cur) ==
    IF Len(cur) > Len(t) THEN cur
    ELSE LevRowFill(prev, c, t, j + 1,
             Append(cur, Min3(prev[j + 1] + 1, cur[j] + 1,
                              prev[j] + (IF c = t[j] THEN 0 ELSE 1))))

RECURSIVE LevRows(_, _, _, _)
\* prev is row i-1, whose first cell is i-1, the distance of s[1..i-1] to ''
LevRows(s, t, i, prev) ==
    IF prev[1] >= Len(s) THEN prev[Len(t) + 1]
    ELSE LevRows(s, t, i + 1, LevRowFill(prev, s[i], t, 1, <<i>>))

Levenshtein(s, t) == LevRows(s, t, 1, [j \in 1..(Len(t) + 1) |-> j - 1])

\* similarity = 1.0 - distance / max(len(a), len(b), 1)
Similarity(a, b) ==
    LET max_len == Max2(Max2(Len(a), Len(b)), 1)
    IN  <<max_len - Levenshtein(a, b), max_len>>


(***************************************************************************)
(* Prefix index (SQLite FTS5, unicode61 tokenizer)                         *)
(***************************************************************************)
\* the characters of the model alphabet that re.sub replaces by a blank
ReservedChars == {",", "-"}

\* FastAddressCorrector._escape_fts5 and escape_fts5_query (the same body)
EscapeFts5(text) ==
    IF text = <<>> THEN text
    ELSE CollapseStrip([i \in 1..Len(text) |->
                          IF text[i] \in ReservedChars THEN " " ELSE text[i]])

\* unicode61: case folded, split at every character that is not a letter or digit
FtsTokens(s) ==
    Split([i \in 1..Len(s) |-> IF IsAlnum(s[i]) THEN PyLowerChar(s[i]) ELSE " "])

SeqToSet(s) == {s[i] : i \in 1..Len(s)}

\* MATCH '<escaped>*' is rejected by FTS5 when nothing precedes the star
FtsSyntaxError(escaped) == escaped = <<>>

\* MATCH 't1 ... tn*': every ti is a token of some column, tn a token prefix
FtsMatch(columns, escaped) ==
    LET qt == FtsTokens(escaped)
        dt == UNION {SeqToSet(FtsTokens(c)) : c \in columns}
    IN  /\ qt # <<>>
        /\ \A i \in 1..(Len(qt) - 1) : qt[i] \in dt
        /\ \E w \in dt : IsPrefixOf(qt[Len(qt)], w)

\* every order in which a SELECT may deliver the rows of S
Orderings(S) ==
    {o \in [1..Cardinality(S) -> S] : \A i, j \in 1..Cardinality(S) : i # j => o[i] # o[j]}

\* ORDER BY usage_count DESC: rows of equal usage_count come in any order
UsageOrderings(S) ==
    {o \in Orderings(S) : \A i, j \in 1..Cardinality(S) :
                              i < j => o[i].usage_count >= o[j].usage_count}

(***************************************************************************)
(* Dictionary store                                                        *)
(***************************************************************************)
RECURSIVE Trim(_)
\* SQL TRIM(): blanks removed at both ends
Trim(s) ==
    IF s = <<>> THEN s
    ELSE IF IsSpace(Head(s)) THEN Trim(Tail(s))
    ELSE IF IsSpace(s[Len(s)]) THEN Trim(SubSeq(s, 1, Len(s) - 1))
    ELSE s

\* a row of street_dictionary as the build inserts it
StreetRow(id, name, usage) ==
    [id |-> id, street_name |-> name,
     normalized_name |-> SqlLower(Trim(name)), usage_count |-> usage]

\* a row of city_dictionary as the build inserts it
CityRow(id, name, usage) ==
    [id |-> id, city_name |-> name,
     normalized_name |-> SqlLower(Trim(name)), usage_count |-> usage]

StreetDicts ==
    << {StreetRow(1, <<"a", "b">>, 1500),
       StreetRow(2, <<"sh", " ", "a", "b">>, 500),
       StreetRow(3, <<"a", "b", " ", "a">>, 300)},
      {StreetRow(1, <<"a", "a", "b", "a", "b">>, 200),
       StreetRow(2, <<"sh", " ", "a", "a", "b", "a", "b">>, 1500),
       StreetRow(3, <<"a", "a", "b", "a", "b", " ", "a">>, 200),
       StreetRow(4, <<"a", "b">>, 700)},
      {StreetRow(1, <<"A", "b">>, 400),
       StreetRow(2, <<"sh", " ", "o", "b">>, 400)},
      {},
      {StreetRow(1, <<"a", "b">>, 1500),
       StreetRow(2, <<"sh", " ", "a", "b">>, 2000)} >>

CityDicts ==
    << {CityRow(1, <<"a", "b">>, 1500),
       CityRow(2, <<"a", "b", "a">>, 500),
       CityRow(3, <<"b", "a">>, 300)},
      {CityRow(1, <<"a", "a", "b", "a", "b">>, 200),
       CityRow(2, <<"a", "a", "b", "a", "a">>, 2000),
       CityRow(3, <<"A", "b">>, 200)},
      {CityRow(1, <<"a", "b", "a", "b", " ", "a", " ", "a">>, 100),
       CityRow(2, <<"a", "b", "o", "b">>, 900)},
      {} >>

(***************************************************************************)
(* Inputs                                                                  *)
(***************************************************************************)
Queries ==
    { <<>>, <<"a">>, <<"-">>,
      <<"-", "-">>, <<" ", ",">>,
      <<"a", "b">>, <<"A", "b">>, <<"a", "-", "b">>,
      <<"o", "b">>, <<"o", "a", "b", "a", "b">>, <<"a", "b", "a", "b">>,
      <<"b", "b", "b", "b">> }

Limits == 1..MaxLimit

MinSimilarities == { <<1, 2>>, <<3, 5>>, <<9, 10>> }

(***************************************************************************)
(* State                                                                   *)
(***************************************************************************)
VARIABLES
    street_dictionary,  \* rows of table street_dictionary
    city_dictionary,    \* rows of table city_dictionary
    buildings,          \* rows of table buildings
    db_cities,          \* GeocodeServicer.db_cities: lower-case name -> city
    use_external_services,  \* GeocodeServicer.use_external_services
    op,                 \* the operation that ran last
    query,              \* arguments of correct_street / correct_city
    limit,
    min_similarity,
    reads,              \* number of statements the operation sent to the store
    raised,             \* TRUE when it ended with sqlite3.OperationalError
    fts_candidates,     \* rows fetched from the prefix index
    fallback,           \* TRUE when the edit-distance scan query ran
    candidates,         \* the rows the loop iterates over
    scanned,            \* how many of them the loop evaluated
    kept,               \* results before sorting
    result,             \* the list returned by the corrector
    components,         \* city, road, house_number given to the search
    address,            \* the original address
    rows,               \* fetched rows with |bm25|, best first
    scored,             \* per fetched row: the three signals and final_score
    search_result,      \* the list returned by the search engine
    algorithm,          \* SearchAddress: the algorithm of the request
    parser_outcome,     \* SearchAddress: "unused", "ok", "failed" or "rpc_error"
    normalization_method,   \* SearchAddress: debug_info.normalization_method
    corrector_calls,    \* SearchAddress: calls made on corrector_stub
    fast_corrector,     \* AddressCorrectorServicer.fast_corrector is not None
    store_failure,      \* CorrectAddress: the store fails during this request
    parsed,             \* CorrectAddress: city and road of parse_address_components
    searches,           \* CorrectAddress: the corrector calls made, in order
    pool,               \* CorrectAddress: suggestions before sorting and cutting
    response,           \* CorrectAddress: the CorrectAddressResponse
    norm_address,       \* normalize_address_for_comparison: the address given
    norm_reordered,     \* the same tokens in another order, otherwise separated
    norm_flag,          \* remove_house_number
    norm_calls,         \* how often the function was applied to its own output
    norm_first,         \* the output for norm_address
    norm_result,        \* the output of the latest call of the chain
    norm_other,         \* the output for norm_reordered
    street_dictionary_fts,  \* rows of the index street_dictionary_fts
    city_dictionary_fts,    \* rows of the index city_dictionary_fts
    street_seq,         \* sqlite_sequence of street_dictionary
    city_seq,           \* sqlite_sequence of city_dictionary
    scan_order,         \* how the GROUP BY scans buildings: "rowid" or "index"
    build_pc,           \* create_dictionaries.main: "idle", or "city" between
                        \* create_street_dictionary and create_city_dictionary
    builds,             \* runs of create_dictionaries.main so far
    run_store,          \* buildings as the current or latest run found it
    prev_run_store,     \* buildings as the run before that found it
    run_before,         \* the dictionaries and indexes when that run began
    lev_weight,         \* the weights put into the final_score formula
    comp_weight,
    bm25_weight,
    pair,               \* two candidates: shared lev_score and normalized_bm25,
                        \* component_score 1.0 and a lower one
    gap,                \* final_score of the first minus that of the second
    prev_gap            \* the same under the weights tried before

store_vars ==
    <<street_dictionary, city_dictionary, buildings, db_cities, use_external_services>>

corrector_vars ==
    <<query, min_similarity, fts_candidates, fallback, candidates, scanned,
      kept, result>>

search_vars == <<components, address, rows, scored, search_result>>

geocode_vars == <<algorithm, parser_outcome, normalization_method, corrector_calls>>

correct_address_vars == <<store_failure, parsed, searches, pool, response>>

build_vars ==
    <<street_dictionary_fts, city_dictionary_fts, street_seq, city_seq,
      scan_order, build_pc, builds, run_store, prev_run_store, run_before>>

normalize_vars ==
    <<norm_address, norm_reordered, norm_flag, norm_calls, norm_first,
      norm_result, norm_other>>

weights_vars == <<lev_weight, comp_weight, bm25_weight, pair, gap, prev_gap>>

\* the state of the functions that are specified on their own
pure_vars == <<weights_vars>>

\* the locals of a corrector call that has not happened
NoCorrectorCall ==
    /\ query' = <<>> /\ min_similarity' = <<3, 5>>
    /\ fts_candidates' = <<>> /\ fallback' = FALSE /\ candidates' = <<>>
    /\ scanned' = 0 /\ kept' = <<>> /\ result' = <<>>

\* the locals of a search that has not happened
NoSearchCall ==
    /\ components' = [city |-> <<>>, road |-> <<>>, house_number |-> <<>>]
    /\ address' = <<>> /\ rows' = <<>> /\ scored' = <<>> /\ search_result' = <<>>

\* the locals of a SearchAddress call that has not happened
NoGeocodeCall ==
    /\ algorithm' = "" /\ parser_outcome' = "unused"
    /\ normalization_method' = "" /\ corrector_calls' = 0

(***************************************************************************)
(* FastAddressCorrector.correct_street                                     *)
(***************************************************************************)
\* the entries of the list street_prefixes that the model alphabet can spell
street_prefixes == { <<"sh">> }

\* threshold of a "good" match in the early exit test
GoodSimilarity == <<4, 5>>

RECURSIVE PartsBest(_, _, _)
\* the loop over normalized_parts
PartsBest(query_lower, parts, best) ==
    IF parts = <<>> THEN best
    ELSE PartsBest(query_lower, Tail(parts),
                   IF Head(parts) \notin street_prefixes
                   THEN RMax(best, Similarity(query_lower, Head(parts)))
                   ELSE best)

\* the whole-name similarity alone
BestSimilarityMutant(query_lower, normalized) == Similarity(query_lower, normalized)

\* best_similarity of one street candidate
BestSimilarity(query_lower, normalized) ==
    LET similarity == Similarity(query_lower, normalized)
        normalized_parts == Split(normalized)
    IN  IF Len(normalized_parts) > 1
        THEN PartsBest(query_lower, normalized_parts, similarity)
        ELSE similarity

KeepMutant(similarity, min_sim) == RLeq(<<1, 2>>, similarity)

\* "if best_similarity >= min_similarity" (and "if similarity >= min_similarity")
Keep(similarity, min_sim) == RLeq(min_sim, similarity)

StreetResult(row, best_similarity) ==
    [street_name |-> row.street_name, normalized_name |-> row.normalized_name,
     similarity |-> best_similarity, usage_count |-> row.usage_count]

EarlyExitMutant(good_matches, lim) == good_matches >= lim * 3

\* the early exit test that follows an appended good match
EarlyExit(good_matches, lim) == good_matches >= lim * 2

\* a scan that evaluates the first candidate only
ScanStreetMutant(cands, i, results, good_matches, query_lower, lim, min_sim) ==
    IF cands = <<>> THEN [kept |-> <<>>, scanned |-> 0]
    ELSE LET best == BestSimilarity(query_lower, cands[1].normalized_name)
         IN  [kept |-> IF Keep(best, min_sim)
                       THEN <<StreetResult(cands[1], best)>> ELSE <<>>,
              scanned |-> 1]

RECURSIVE ScanStreet(_, _, _, _, _, _, _)
\* for row in candidates: ... ; yields the kept results and the rows evaluated
ScanStreet(cands, i, results, good_matches, query_lower, lim, min_sim) ==
    IF i > Len(cands) THEN [kept |-> results, scanned |-> Len(cands)]
    ELSE LET best == BestSimilarity(query_lower, cands[i].normalized_name)
         IN  IF Keep(best, min_sim)
             THEN LET results2 == Append(results, StreetResult(cands[i], best))
                  IN  IF RLeq(GoodSimilarity, best)
                      THEN IF EarlyExit(good_matches + 1, lim)
                           THEN [kept |-> results2, scanned |-> i]
                           ELSE ScanStreet(cands, i + 1, results2, good_matches + 1,
                                           query_lower, lim, min_sim)
                      ELSE ScanStreet(cands, i + 1, results2, good_matches,
                                      query_lower, lim, min_sim)
             ELSE ScanStreet(cands, i + 1, results, good_matches,
                             query_lower, lim, min_sim)

\* the similarity part of the key alone
BlendedScoreMutant(x) == RMul(x.similarity, <<7, 10>>)

\* x['similarity'] * 0.7 + min(x['usage_count'] / 1000, 1.0) * 0.3
BlendedScore(x) ==
    RAdd(RMul(x.similarity, <<7, 10>>),
         RMul(RMin(Reduce(x.usage_count, 1000), ROne), <<3, 10>>))

RECURSIVE InsertDesc(_, _)
\* the pair <<key, item>> placed behind every pair whose key is not smaller
InsertDesc(sorted, x) ==
    IF sorted = <<>> THEN <<x>>
    ELSE IF RLeq(x[1], Head(sorted)[1])
         THEN <<Head(sorted)>> \o InsertDesc(Tail(sorted), x)
         ELSE <<x>> \o sorted

RECURSIVE SortPairsDesc(_, _)
SortPairsDesc(todo, sorted) ==
    IF todo = <<>> THEN sorted
    ELSE SortPairsDesc(Tail(todo), InsertDesc(sorted, Head(todo)))

\* list.sort(key=..., reverse=True): stable, largest key first; keys[i] is
\* the key of items[i]
SortDesc(items, keys) ==
    LET pairs == [i \in 1..Len(items) |-> <<keys[i], items[i]>>]
        sorted == SortPairsDesc(pairs, <<>>)
    IN  [i \in 1..Len(items) |-> sorted[i][2]]

RankAndCutMutant(results, lim) == Take(results, lim)

\* results.sort(key=blended score, reverse=True); return results[:limit]
RankAndCut(results, lim) ==
    Take(SortDesc(results, [i \in 1..Len(results) |-> BlendedScore(results[i])]), lim)

TooShortMutant(q) == q = <<>>

\* the guard "if not query or len(query) < 2: return []"
TooShort(q) == q = <<>> \/ Len(q) < 2

ReturnEmpty(name, q, lim, min_sim) ==
    /\ op' = name /\ query' = q /\ limit' = lim /\ min_similarity' = min_sim
    /\ reads' = 0 /\ raised' = FALSE
    /\ fts_candidates' = <<>> /\ fallback' = FALSE /\ candidates' = <<>>
    /\ scanned' = 0 /\ kept' = <<>> /\ result' = <<>>

\* cursor.execute(sql, [fts_query, limit * 3]) raises on a malformed MATCH
RaiseSyntaxError(name, q, lim, min_sim) ==
    /\ op' = name /\ query' = q /\ limit' = lim /\ min_similarity' = min_sim
    /\ reads' = 1 /\ raised' = TRUE
    /\ fts_candidates' = <<>> /\ fallback' = FALSE /\ candidates' = <<>>
    /\ scanned' = 0 /\ kept' = <<>> /\ result' = <<>>

NeedFallbackMutant(cands) == Len(cands) < 2

\* whether the fallback SELECT runs: "if not candidates"
NeedFallback(cands) == cands = <<>>

FinishStreet(q, lim, min_sim, fts, fb, cands) ==
    LET scan == ScanStreet(cands, 1, <<>>, 0, PyLower(q), lim, min_sim)
    IN  /\ op' = "correct_street" /\ query' = q /\ limit' = lim
        /\ min_similarity' = min_sim
        /\ reads' = IF fb THEN 2 ELSE 1
        /\ raised' = FALSE
        /\ fts_candidates' = fts /\ fallback' = fb /\ candidates' = cands
        /\ scanned' = scan.scanned /\ kept' = scan.kept
        /\ result' = RankAndCut(scan.kept, lim)

StreetFtsRows(escaped) ==
    {r \in street_dictionary : FtsMatch({r.street_name, r.normalized_name}, escaped)}

correct_street(q, lim, min_sim) ==
    /\ UNCHANGED store_vars
    /\ NoSearchCall /\ NoGeocodeCall
    /\ IF TooShort(q)
       THEN ReturnEmpty("correct_street", q, lim, min_sim)
       ELSE LET escaped == EscapeFts5(q)
            IN  IF FtsSyntaxError(escaped)
                THEN RaiseSyntaxError("correct_street", q, lim, min_sim)
                ELSE \E o \in Orderings(StreetFtsRows(escaped)) :
                        LET fts == Take(o, lim * 3)
                        IN  IF NeedFallback(fts)
                            THEN \E all \in UsageOrderings(street_dictionary) :
                                     FinishStreet(q, lim, min_sim, fts, TRUE, all)
                            ELSE FinishStreet(q, lim, min_sim, fts, FALSE, fts)

(***************************************************************************)
(* FastAddressCorrector.correct_city                                       *)
(***************************************************************************)
\* LIMIT 30 of the fallback SELECT over city_dictionary
CityFallbackLimit == 30

CityResult(row, similarity) ==
    [city_name |-> row.city_name, normalized_name |-> row.normalized_name,
     similarity |-> similarity, usage_count |-> row.usage_count]

RECURSIVE ScanCity(_, _, _, _, _)
\* for row in candidates: keep the rows whose similarity reaches min_similarity
ScanCity(cands, i, results, query_lower, min_sim) ==
    IF i > Len(cands) THEN [kept |-> results, scanned |-> Len(cands)]
    ELSE LET similarity == Similarity(query_lower, cands[i].normalized_name)
         IN  ScanCity(cands, i + 1,
                      IF Keep(similarity, min_sim)
                      THEN Append(results, CityResult(cands[i], similarity))
                      ELSE results,
                      query_lower, min_sim)

FinishCity(q, lim, min_sim, fts, fb, cands) ==
    LET scan == ScanCity(cands, 1, <<>>, PyLower(q), min_sim)
    IN  /\ op' = "correct_city" /\ query' = q /\ limit' = lim
        /\ min_similarity' = min_sim
        /\ reads' = IF fb THEN 2 ELSE 1
        /\ raised' = FALSE
        /\ fts_candidates' = fts /\ fallback' = fb /\ candidates' = cands
        /\ scanned' = scan.scanned /\ kept' = scan.kept
        /\ result' = RankAndCut(scan.kept, lim)

CityFtsRows(escaped) ==
    {r \in city_dictionary : FtsMatch({r.city_name, r.normalized_name}, escaped)}

correct_city(q, lim, min_sim) ==
    /\ UNCHANGED store_vars
    /\ NoSearchCall /\ NoGeocodeCall
    /\ IF TooShort(q)
       THEN ReturnEmpty("correct_city", q, lim, min_sim)
       ELSE LET escaped == EscapeFts5(q)
            IN  IF FtsSyntaxError(escaped)
                THEN RaiseSyntaxError("correct_city", q, lim, min_sim)
                ELSE \E o \in Orderings(CityFtsRows(escaped)) :
                        LET fts == Take(o, lim * 3)
                        IN  IF NeedFallback(fts)
                            THEN \E all \in UsageOrderings(city_dictionary) :
                                     FinishCity(q, lim, min_sim, fts, TRUE,
                                                Take(all, CityFallbackLimit))
                            ELSE FinishCity(q, lim, min_sim, fts, FALSE, fts)

(***************************************************************************)
(* normalize_address_for_comparison                                        *)
(***************************************************************************)
\* code point of a character
CharCode(c) ==
    CASE c = " " -> 32 [] c = "," -> 44 [] c = "-" -> 45 [] c = "1" -> 49
      [] c = "A" -> 1040 [] c = "a" -> 1072 [] c = "b" -> 1073
      [] c = "o" -> 1086 [] c = "sh" -> 1096

RECURSIVE StrLeq(_, _)
\* u <= v for Python strings: by code points, a proper prefix first
StrLeq(u, v) ==
    IF u = <<>> THEN TRUE
    ELSE IF v = <<>> THEN FALSE
    ELSE IF Head(u) = Head(v) THEN StrLeq(Tail(u), Tail(v))
    ELSE CharCode(Head(u)) < CharCode(Head(v))

RECURSIVE InsertWord(_, _)
InsertWord(sorted, w) ==
    IF sorted = <<>> THEN <<w>>
    ELSE IF StrLeq(Head(sorted), w)
         THEN <<Head(sorted)>> \o InsertWord(Tail(sorted), w)
         ELSE <<w>> \o sorted

SortWordsMutant(todo, sorted) == sorted \o todo

RECURSIVE SortWords(_, _)
\* filtered_words.sort()
SortWords(todo, sorted) ==
    IF todo = <<>> THEN sorted
    ELSE SortWords(Tail(todo), InsertWord(sorted, Head(todo)))

\* str.strip()
PyStrip(s) == Trim(s)

\* the entries of the list service_words that the model alphabet can spell
service_words == { <<"sh">> }

\* re.match(r'^\d+[а-я]?(/\d+)?(к\d+)?$', word), for the model alphabet:
\* digits, then at most one lower-case letter
LooksLikeHouseNumber(word) ==
    /\ word # <<>>
    /\ IsDigit(word[1])
    /\ \E n \in 1..Len(word) :
          /\ \A k \in 1..n : IsDigit(word[k])
          /\ \/ n = Len(word)
             \/ n + 1 = Len(word) /\ word[n + 1] \in {"a", "b", "o", "sh"}

FilterWordsMutant(words, remove_house_number) ==
    IF words = <<>> THEN <<>>
    ELSE IF \E k \in 1..Len(words) : words[k] \in service_words
         THEN LET k == CHOOSE i \in 1..Len(words) :
                          /\ words[i] \in service_words
                          /\ \A j \in 1..(i - 1) : words[j] \notin service_words
              IN  SubSeq(words, 1, k - 1) \o SubSeq(words, k + 1, Len(words))
    ELSE words

RECURSIVE FilterWords(_, _)
\* the loop that drops service words and, on request, house numbers
FilterWords(words, remove_house_number) ==
    IF words = <<>> THEN <<>>
    ELSE IF Head(words) \in service_words
         THEN FilterWords(Tail(words), remove_house_number)
    ELSE IF remove_house_number /\ LooksLikeHouseNumber(Head(words))
         THEN FilterWords(Tail(words), remove_house_number)
    ELSE <<Head(words)>> \o FilterWords(Tail(words), remove_house_number)

normalize_address_for_comparison(addr, remove_house_number) ==
    IF addr = <<>> THEN <<>>
    ELSE LET normalized == PyStrip(PyLower(addr))
             unpunctuated == [i \in 1..Len(normalized) |->
                                 IF normalized[i] = "," THEN " " ELSE normalized[i]]
             filtered_words == FilterWords(Split(unpunctuated), remove_house_number)
         IN  Join(SortWords(filtered_words, <<>>))

(***************************************************************************)
(* Record store                                                            *)
(***************************************************************************)
RECURSIVE StripCommaBlank(_)
\* str.strip(', ')
StripCommaBlank(s) ==
    IF s = <<>> THEN s
    ELSE IF Head(s) \in {",", " "} THEN StripCommaBlank(Tail(s))
    ELSE IF s[Len(s)] \in {",", " "} THEN StripCommaBlank(SubSeq(s, 1, Len(s) - 1))
    ELSE s

\* a row of buildings as init_db inserts it; '' stands for NULL as well
BuildingRow(id, city, street, housenumber) ==
    [id |-> id, city |-> city, street |-> street, housenumber |-> housenumber,
     full_address |->
         StripCommaBlank(city \o <<",", " ">> \o street \o <<",", " ">> \o housenumber)]

BuildingStores ==
    << {BuildingRow(1, <<"a", "b">>, <<"sh", " ", "a", "b">>, <<"1">>),
        BuildingRow(2, <<"a", "b">>, <<"sh", " ", "a", "b">>, <<"1", "A">>),
        BuildingRow(3, <<"a", "b">>, <<"1", " ", "a", "b">>, <<>>)},
       {BuildingRow(1, <<"A", "b">>, <<"a", "b", "a">>, <<"1", "1">>),
        BuildingRow(2, <<"o", "b">>, <<"a", "b", "a", " ", "sh">>, <<>>),
        BuildingRow(3, <<"a", "b", "a">>, <<"o", "b">>, <<"1">>)},
       {BuildingRow(1, <<"a", "b">>, <<"a", "b", "o">>, <<"1">>),
        BuildingRow(2, <<"o", "b", "o">>, <<"1", " ", "a", "b">>, <<>>)},
       {},
       {BuildingRow(1, <<"a", "b">>, <<"sh", " ", "a", "b">>, <<"1">>),
        BuildingRow(2, <<"a", "b">>, <<"sh", " ", "a", "b">>, <<"1", "1">>),
        BuildingRow(3, <<"a", "b">>, <<"sh", " ", "a", "b">>, <<"1", "A">>)} >>

(***************************************************************************)
(* AdvancedSearchEngine.search                                             *)
(***************************************************************************)
\* magnitudes that bm25() may take, in an arbitrary unit
Bm25Magnitudes == {1, 2, 4}

NoComponents == [city |-> <<>>, road |-> <<>>, house_number |-> <<>>]

Comp(city, road, house_number) ==
    [city |-> city, road |-> road, house_number |-> house_number]

\* the terms of '<escaped>*': every token exact, the last one a prefix
PrefixTerms(escaped) ==
    LET toks == FtsTokens(escaped)
    IN  [k \in 1..Len(toks) |-> <<toks[k], k = Len(toks)>>]

RECURSIVE WordTerms(_)
\* [f"{w}*" for w in words if len(w) > 2]
WordTerms(words) ==
    IF words = <<>> THEN <<>>
    ELSE (IF Len(Head(words)) > 2 THEN PrefixTerms(Head(words)) ELSE <<>>)
         \o WordTerms(Tail(words))

\* MATCH on a list of terms: each term is found in some column
FtsMatchTerms(columns, terms) ==
    LET dt == UNION {SeqToSet(FtsTokens(c)) : c \in columns}
    IN  \A k \in 1..Len(terms) :
            \E w \in dt : IF terms[k][2] THEN IsPrefixOf(terms[k][1], w)
                          ELSE w = terms[k][1]

\* fts_query_parts of the search
SearchTerms(city, street, house_number, original_address) ==
    LET by_component ==
            (IF city # <<>> THEN PrefixTerms(city) ELSE <<>>)
            \o (IF street # <<>> THEN PrefixTerms(street) ELSE <<>>)
            \o (IF house_number # <<>> THEN PrefixTerms(house_number) ELSE <<>>)
    IN  IF by_component # <<>> THEN by_component
        ELSE WordTerms(Split(EscapeFts5(PyLower(original_address))))

BuildingFtsRows(terms) ==
    {b \in buildings :
        FtsMatchTerms({b.city, b.street, b.housenumber, b.full_address}, terms)}

\* the city part of component_matches
CityGrade(city, row) ==
    IF row.city # <<>> /\ PyLower(city) = PyLower(row.city) THEN <<1, 1>>
    ELSE IF row.city # <<>> /\ Contains(PyLower(row.city), PyLower(city)) THEN <<1, 2>>
    ELSE RZero

StreetGradeMutant(street, row) ==
    IF PyLower(street) = PyLower(row.street) THEN <<1, 1>>
    ELSE IF Contains(PyLower(row.street), PyLower(street)) THEN <<7, 10>>
    ELSE RZero

\* the street part of component_matches
StreetGrade(street, row) ==
    LET street_normalized == normalize_address_for_comparison(street, FALSE)
        db_street_normalized == normalize_address_for_comparison(row.street, FALSE)
    IN  IF street_normalized = db_street_normalized THEN <<1, 1>>
        ELSE IF /\ street_normalized # <<>>
                /\ db_street_normalized # <<>>
                /\ Contains(db_street_normalized, street_normalized) THEN <<7, 10>>
        ELSE RZero

HouseGradeMutant(house_number, row) ==
    IF row.housenumber # <<>> /\ house_number = row.housenumber THEN <<1, 1>>
    ELSE IF row.housenumber # <<>> /\ Contains(row.housenumber, house_number)
         THEN <<1, 2>>
    ELSE IF row.housenumber = <<>> THEN <<-1, 1>>
    ELSE RZero

\* the house number part of component_matches
HouseGrade(house_number, row) ==
    IF row.housenumber # <<>> /\ house_number = row.housenumber THEN <<1, 1>>
    ELSE IF row.housenumber # <<>> /\ Contains(row.housenumber, house_number)
         THEN <<1, 2>>
    ELSE IF row.housenumber = <<>> THEN <<-3, 10>>
    ELSE RZero

\* component_score = component_matches / total_components
ComponentScore(city, street, house_number, row) ==
    LET total_components ==
            (IF city # <<>> THEN 1 ELSE 0) + (IF street # <<>> THEN 1 ELSE 0)
            + (IF house_number # <<>> THEN 1 ELSE 0)
        component_matches ==
            RAdd(RAdd(IF city # <<>> THEN CityGrade(city, row) ELSE RZero,
                      IF street # <<>> THEN StreetGrade(street, row) ELSE RZero),
                 IF house_number # <<>> THEN HouseGrade(house_number, row) ELSE RZero)
    IN  IF total_components > 0
        THEN RMul(component_matches, <<1, total_components>>)
        ELSE RZero

\* lev_score of a row against the original address
LevScore(row, original_address) ==
    Similarity(normalize_address_for_comparison(row.full_address, FALSE),
               normalize_address_for_comparison(original_address, FALSE))

\* normalized_bm25 = min(bm25_score / max_bm25, 1.0) if max_bm25 > 0 else 0.0
NormalizedBm25(bm25_score, max_bm25) ==
    IF max_bm25 > 0 THEN RMin(Reduce(bm25_score, max_bm25), ROne) ELSE RZero

\* final_score = 0.25 * lev_score + 0.60 * component_score + 0.15 * normalized_bm25
FinalScore(lev_score, component_score, normalized_bm25) ==
    RAdd(RAdd(RMul(<<1, 4>>, lev_score), RMul(<<3, 5>>, component_score)),
         RMul(<<3, 20>>, normalized_bm25))

\* the body of "for row in rows"
ScoreRow(fetched, city, street, house_number, original_address) ==
    [k \in 1..Len(fetched) |->
        LET row == fetched[k].row
            lev_score == LevScore(row, original_address)
            component_score == ComponentScore(city, street, house_number, row)
            normalized_bm25 == NormalizedBm25(fetched[k].bm25, fetched[1].bm25)
        IN  [row |-> row, lev_score |-> lev_score,
             component_score |-> component_score,
             normalized_bm25 |-> normalized_bm25,
             final_score |-> FinalScore(lev_score, component_score, normalized_bm25)]]

SearchEntry(sc) ==
    [id |-> sc.row.id, locality |-> sc.row.city, street |-> sc.row.street,
     number |-> sc.row.housenumber, score |-> sc.final_score,
     full_address |-> sc.row.full_address, lev_score |-> sc.lev_score]

SortAndCutMutant(results, lim) == Take(results, lim)

\* results.sort(key=lambda x: x['score'], reverse=True); results[:limit]
SortAndCut(results, lim) ==
    Take(SortDesc(results, [k \in 1..Len(results) |-> results[k].score]), lim)

\* the outcomes of the FTS5 SELECT: rows in bm25 order, at most limit * 2
FetchedRows(terms, lim) ==
    LET matching == BuildingFtsRows(terms)
        n == Min2(Cardinality(matching), lim * 2)
    IN  {f \in [1..n -> [row : matching, bm25 : Bm25Magnitudes]] :
            /\ \A i, j \in 1..n : i # j => f[i].row # f[j].row
            /\ \A i, j \in 1..n : i < j => f[i].bm25 >= f[j].bm25}

\* what search() leaves behind: statements sent, rows, scores, returned list
SearchOutcomes(comps, original_address, lim) ==
    LET city == EscapeFts5(PyStrip(comps.city))
        street == EscapeFts5(PyStrip(comps.road))
        house_number == EscapeFts5(PyStrip(comps.house_number))
        terms == SearchTerms(city, street, house_number, original_address)
    IN  IF terms = <<>>
        THEN {[reads |-> 0, rows |-> <<>>, scored |-> <<>>, results |-> <<>>]}
        ELSE {LET sc == ScoreRow(f, city, street, house_number, original_address)
              IN  [reads |-> 1, rows |-> f, scored |-> sc,
                   results |-> SortAndCut([k \in 1..Len(sc) |-> SearchEntry(sc[k])], lim)]
              : f \in FetchedRows(terms, lim)}

SearchRequests ==
    { <<Comp(<<"a", "b">>, <<"sh", " ", "a", "b">>, <<"1">>),
        <<"a", "b", ",", " ", "sh", " ", "a", "b", ",", " ", "1">>>>,
      <<Comp(<<>>, <<"a", "b">>, <<>>), <<"a", "b">>>>,
      <<Comp(<<>>, <<>>, <<"1">>), <<"1">>>>,
      <<Comp(<<"A", "b">>, <<>>, <<"1", "a">>), <<"A", "b", " ", "1", "a">>>>,
      <<Comp(<<>>, <<"a", "-", "b">>, <<>>), <<"a", "-", "b">>>>,
      <<Comp(<<"o">>, <<"a", "b">>, <<"1">>), <<"o", " ", "a", "b", " ", "1">>>>,
      <<NoComponents, <<"a", "b", "a">>>>,
      <<NoComponents, <<"o", "b">>>>,
      <<NoComponents, <<"o", "b", "o", " ", "a", "b", "a">>>> }

\* the addresses of SearchAddress requests
RequestAddresses ==
    {r[2] : r \in SearchRequests} \cup { <<>>, <<"a", "b", " ", "1">>, <<"a", "b", "o">> }

\* request.algorithm; "" is the unset field
Algorithms == {"", "advanced", "basic"}

(***************************************************************************)
(* BasicSearchEngine.search                                                *)
(***************************************************************************)
BasicMatch(b, city, street, house_number) ==
    /\ city # <<>> => SqlLower(b.city) = SqlLower(city)
    /\ street # <<>> => SqlLower(b.street) = SqlLower(street)
    /\ house_number # <<>> => b.housenumber = house_number

BasicEntry(b) ==
    [id |-> b.id, locality |-> b.city, street |-> b.street,
     number |-> b.housenumber, score |-> ROne]

\* SELECT ... WHERE ... LIMIT ?: any limit of the matching rows, in any order
BasicOutcomes(comps, lim) ==
    LET city == PyStrip(comps.city)
        street == PyStrip(comps.road)
        house_number == PyStrip(comps.house_number)
        matching == {b \in buildings : BasicMatch(b, city, street, house_number)}
        n == Min2(Cardinality(matching), lim)
    IN  IF city = <<>> /\ street = <<>> /\ house_number = <<>>
        THEN {[reads |-> 0, rows |-> <<>>, scored |-> <<>>, results |-> <<>>]}
        ELSE {[reads |-> 1, rows |-> <<>>, scored |-> <<>>,
               results |-> [k \in 1..n |-> BasicEntry(f[k])]]
              : f \in {g \in [1..n -> matching] :
                          \A i, j \in 1..n : i # j => g[i] # g[j]}}

(***************************************************************************)
(* GeocodeServicer                                                         *)
(***************************************************************************)
\* the fallback of "request.limit if request.limit > 0 else 10"
DefaultLimit == 10

\* the entries of the set street_prefixes of _simple_parse that the model
\* alphabet can spell
simple_parse_prefixes == { <<"sh">> }

\* the maps that __init__ may cache: lower-case city name -> a city spelled so
DbCitiesOf(bs) ==
    LET names == {b.city : b \in {x \in bs : x.city # <<>>}}
        keys == {PyLower(c) : c \in names}
    IN  {m \in [keys -> names] : \A k \in keys : PyLower(m[k]) = k}

RECURSIVE SimpleParseLoop(_, _, _, _, _)
\* for part in parts: classify the token
SimpleParseLoop(parts, cities, found_city, found_house, street_parts) ==
    IF parts = <<>>
    THEN [city |-> found_city, road |-> Join(street_parts), house_number |-> found_house]
    ELSE LET part == Head(parts)
             rest == Tail(parts)
         IN  IF Len(part) < 2
             THEN SimpleParseLoop(rest, cities, found_city, found_house, street_parts)
             ELSE IF part \in DOMAIN cities
             THEN SimpleParseLoop(rest, cities, cities[part], found_house, street_parts)
             ELSE IF IsDigit(part[1])
             THEN SimpleParseLoop(rest, cities, found_city, part, street_parts)
             ELSE IF part \in simple_parse_prefixes
             THEN SimpleParseLoop(rest, cities, found_city, found_house, street_parts)
             ELSE IF \A k \in 1..Len(part) : ~IsAlnum(part[k])
             THEN SimpleParseLoop(rest, cities, found_city, found_house, street_parts)
             ELSE SimpleParseLoop(rest, cities, found_city, found_house,
                                  Append(street_parts, part))

\* GeocodeServicer._simple_parse
SimpleParse(addr, cities) ==
    LET lowered == PyLower(addr)
        parts == Split([i \in 1..Len(lowered) |->
                           IF lowered[i] = "," THEN " " ELSE lowered[i]])
    IN  SimpleParseLoop(parts, cities, <<>>, <<>>, <<>>)

\* use_parser = self.use_external_services and self.parser_stub and len(address) >= 3
UseParser(addr) == use_external_services /\ Len(addr) >= 3

\* the component sets the external parser may answer with for an address
ParserAnswers(addr) ==
    {r[1] : r \in {x \in SearchRequests : x[2] = addr}} \cup {NoComponents}

ParseOutcomesMutant(addr) ==
    IF UseParser(addr)
    THEN {<<"ok", c>> : c \in ParserAnswers(addr)}
         \cup {<<"failed", SimpleParse(addr, db_cities)>>,
               <<"rpc_error", NoComponents>>}
    ELSE {<<"unused", SimpleParse(addr, db_cities)>>}

\* the outcomes of the parsing step: <<parser_outcome, components>>
ParseOutcomes(addr) ==
    IF UseParser(addr)
    THEN {<<"ok", c>> : c \in ParserAnswers(addr)}
         \cup {<<"failed", SimpleParse(addr, db_cities)>>,
               <<"rpc_error", SimpleParse(addr, db_cities)>>}
    ELSE {<<"unused", SimpleParse(addr, db_cities)>>}

\* normalization_method = "libpostal+fts5" if use_parser else "simple_parse+fts5"
NormalizationMethod(addr) ==
    IF UseParser(addr) THEN "libpostal+fts5" ELSE "simple_parse+fts5"

\* the calls SearchAddress makes on the corrector: corrector_stub is None
\* and no statement of the handler uses it
CorrectorCalls(results) == 0

search_address(request_address, request_limit, request_algorithm) ==
    LET addr == PyStrip(request_address)
        lim == IF request_limit > 0 THEN request_limit ELSE DefaultLimit
        algo == IF request_algorithm = "" THEN "advanced" ELSE request_algorithm
    IN  \E p \in ParseOutcomes(addr) :
        \E out \in (IF algo = "basic" THEN BasicOutcomes(p[2], lim)
                    ELSE SearchOutcomes(p[2], addr, lim)) :
            /\ op' = "SearchAddress" /\ limit' = lim /\ algorithm' = algo
            /\ address' = addr /\ components' = p[2] /\ parser_outcome' = p[1]
            /\ reads' = out.reads /\ raised' = FALSE
            /\ rows' = out.rows /\ scored' = out.scored
            /\ search_result' = out.results
            /\ normalization_method' = NormalizationMethod(addr)
            /\ corrector_calls' = CorrectorCalls(out.results)
            /\ NoCorrectorCall
            /\ UNCHANGED store_vars

\* AdvancedSearchEngine.search called on its own
advanced_search(comps, original_address, lim) ==
    \E out \in SearchOutcomes(comps, original_address, lim) :
        /\ op' = "search" /\ limit' = lim
        /\ address' = original_address /\ components' = comps
        /\ reads' = out.reads /\ raised' = FALSE
        /\ rows' = out.rows /\ scored' = out.scored
        /\ search_result' = out.results
        /\ NoCorrectorCall /\ NoGeocodeCall
        /\ UNCHANGED store_vars

(***************************************************************************)
(* AddressCorrectorServicer.CorrectAddress                                 *)
(***************************************************************************)
\* the fallback of "request.max_suggestions if request.max_suggestions > 0 else 5"
DefaultMaxSuggestions == 5

\* the fallback of "request.min_similarity if request.min_similarity > 0 else 0.5"
DefaultMinSimilarity == <<1, 2>>

NoParse == [city |-> <<>>, road |-> <<>>]

NoResponse ==
    [code |-> "", corrected_address |-> <<>>, suggestions |-> <<>>,
     was_corrected |-> FALSE, variants_checked |-> 0]

\* the locals of a CorrectAddress call that has not happened
NoCorrectAddressCall ==
    /\ store_failure' = FALSE /\ parsed' = NoParse /\ searches' = <<>>
    /\ pool' = <<>> /\ response' = NoResponse

\* what a corrector call leaves to its caller when the store answers:
\* raised, or the returned list
StreetCorrections(q, lim, min_sim) ==
    IF TooShort(q) THEN {[raised |-> FALSE, reads |-> 0, hits |-> <<>>]}
    ELSE LET escaped == EscapeFts5(q)
         IN  IF FtsSyntaxError(escaped)
             THEN {[raised |-> TRUE, reads |-> 1, hits |-> <<>>]}
             ELSE UNION {
                 LET fts == Take(o, lim * 3)
                 IN  IF NeedFallback(fts)
                     THEN {[raised |-> FALSE, reads |-> 2,
                            hits |-> RankAndCut(
                                ScanStreet(all, 1, <<>>, 0, PyLower(q), lim, min_sim).kept,
                                lim)]
                           : all \in UsageOrderings(street_dictionary)}
                     ELSE {[raised |-> FALSE, reads |-> 1,
                            hits |-> RankAndCut(
                                ScanStreet(fts, 1, <<>>, 0, PyLower(q), lim, min_sim).kept,
                                lim)]}
                 : o \in Orderings(StreetFtsRows(escaped))}

CityCorrections(q, lim, min_sim) ==
    IF TooShort(q) THEN {[raised |-> FALSE, reads |-> 0, hits |-> <<>>]}
    ELSE LET escaped == EscapeFts5(q)
         IN  IF FtsSyntaxError(escaped)
             THEN {[raised |-> TRUE, reads |-> 1, hits |-> <<>>]}
             ELSE UNION {
                 LET fts == Take(o, lim * 3)
                 IN  IF NeedFallback(fts)
                     THEN {[raised |-> FALSE, reads |-> 2,
                            hits |-> RankAndCut(
                                ScanCity(Take(all, CityFallbackLimit), 1, <<>>,
                                         PyLower(q), min_sim).kept,
                                lim)]
                           : all \in UsageOrderings(city_dictionary)}
                     ELSE {[raised |-> FALSE, reads |-> 1,
                            hits |-> RankAndCut(
                                ScanCity(fts, 1, <<>>, PyLower(q), min_sim).kept, lim)]}
                 : o \in Orderings(CityFtsRows(escaped))}

\* a corrector call while the store fails: cursor.execute raises, unless the
\* call returns before it touches the store
Corrections(kind, q, lim, min_sim, failing) ==
    IF failing /\ ~TooShort(q)
    THEN {[raised |-> TRUE, reads |-> 1, hits |-> <<>>]}
    ELSE IF kind = "street" THEN StreetCorrections(q, lim, min_sim)
    ELSE CityCorrections(q, lim, min_sim)

\* determine_correction_source
DetermineCorrectionSource(similarity) ==
    IF RLeq(<<19, 20>>, similarity) THEN "EXACT_MATCH"
    ELSE IF RLeq(<<7, 10>>, similarity) THEN "FUZZY_MATCH"
    ELSE IF RLeq(<<1, 2>>, similarity) THEN "SQLITE_DATABASE"
    ELSE "LIBPOSTAL_NORMALIZATION"

\* the suggestion appended for one hit of a corrector call
Suggestion(kind, hit) ==
    [corrected_address |-> IF kind = "street" THEN hit.street_name ELSE hit.city_name,
     similarity_score |-> hit.similarity,
     component |-> IF kind = "street" THEN "road" ELSE "city",
     source |-> DetermineCorrectionSource(hit.similarity)]

Suggestions(kind, hits) == [k \in 1..Len(hits) |-> Suggestion(kind, hits[k])]

\* the corrector calls correct_address makes for the parsed components
SearchPlan(original_address, city, street) ==
    (IF city # <<>> THEN << <<"city", city>> >> ELSE <<>>)
    \o (IF street # <<>> THEN << <<"street", street>> >> ELSE <<>>)
    \o (IF city = <<>> /\ street = <<>>
        THEN << <<"street", original_address>>, <<"city", original_address>> >>
        ELSE <<>>)

RECURSIVE RunPlan(_, _, _, _, _, _)
\* the calls of the plan in order; the first one that raises ends the function
RunPlan(plan, done, suggestions, lim, min_sim, failing) ==
    IF plan = <<>>
    THEN {[raised |-> FALSE, searches |-> done, pool |-> suggestions]}
    ELSE UNION {
        LET call == [kind |-> Head(plan)[1], query |-> Head(plan)[2],
                     raised |-> c.raised, reads |-> c.reads, hits |-> c.hits]
        IN  IF c.raised
            THEN {[raised |-> TRUE, searches |-> Append(done, call),
                   pool |-> suggestions]}
            ELSE RunPlan(Tail(plan), Append(done, call),
                         suggestions \o Suggestions(call.kind, c.hits),
                         lim, min_sim, failing)
        : c \in Corrections(Head(plan)[1], Head(plan)[2], lim, min_sim, failing)}

RECURSIVE StatementsSent(_)
\* the statements the calls sent to the store
StatementsSent(calls) ==
    IF calls = <<>> THEN 0 ELSE Head(calls).reads + StatementsSent(Tail(calls))

\* the suggestions left in the order of the calls
SortSuggestionsMutant(suggestions) == suggestions

\* suggestions.sort(key=lambda x: x['similarity_score'], reverse=True)
SortSuggestions(suggestions) ==
    SortDesc(suggestions,
             [k \in 1..Len(suggestions) |-> suggestions[k].similarity_score])

\* the dict correct_address returns for the suggestions it collected
CorrectionResult(original_address, suggestions, max_suggestions) ==
    LET sorted == SortSuggestions(suggestions)
        corrected_address ==
            IF sorted # <<>> THEN sorted[1].corrected_address ELSE original_address
    IN  [corrected_address |-> corrected_address,
         suggestions |-> Take(sorted, max_suggestions),
         was_corrected |->
             sorted # <<>> /\ PyLower(corrected_address) # PyLower(original_address),
         variants_checked |-> Len(Take(sorted, max_suggestions))]

\* the labelled components libpostal may return for an address; NoParse is
\* also what parse_address_components returns when the parser raises
ParsedAnswers(original_address) ==
    LET words == Split(original_address)
    IN  {NoParse,
         [city |-> <<>>, road |-> original_address],
         [city |-> original_address, road |-> <<>>]}
        \cup (IF Len(words) >= 2
              THEN {[city |-> Head(words), road |-> Join(Tail(words))]}
              ELSE {})

\* correct_address: what it leaves behind for each way the parser and the
\* store may answer
correct_address(original_address, max_suggestions, min_sim, failing) ==
    IF ~fast_corrector
    THEN {[raised |-> FALSE, parsed |-> NoParse, searches |-> <<>>, pool |-> <<>>,
           result |-> [corrected_address |-> original_address,
                       suggestions |-> <<>>, was_corrected |-> FALSE,
                       variants_checked |-> 0]]}
    ELSE UNION {
        {[raised |-> r.raised, parsed |-> comps, searches |-> r.searches,
          pool |-> r.pool,
          result |-> CorrectionResult(original_address, r.pool, max_suggestions)]
         : r \in RunPlan(SearchPlan(original_address, PyStrip(comps.city),
                                    PyStrip(comps.road)),
                         <<>>, <<>>, max_suggestions, min_sim, failing)}
        : comps \in ParsedAnswers(original_address)}

\* the response CorrectAddress builds from the outcome of correct_address
CorrectAddressResponse(original_address, out) ==
    IF out.raised
    THEN [code |-> "INTERNAL_ERROR", corrected_address |-> original_address,
          suggestions |-> <<>>, was_corrected |-> FALSE, variants_checked |-> 0]
    ELSE [code |-> "OK", corrected_address |-> out.result.corrected_address,
          suggestions |-> out.result.suggestions,
          was_corrected |-> out.result.was_corrected,
          variants_checked |-> out.result.variants_checked]

\* AddressCorrectorServicer.CorrectAddress
correct_address_request(request_address, request_max, request_min_sim, failing) ==
    LET original_address == PyStrip(request_address)
        max_suggestions == IF request_max > 0 THEN request_max
                           ELSE DefaultMaxSuggestions
        min_sim == IF RLt(RZero, request_min_sim) THEN request_min_sim
                   ELSE DefaultMinSimilarity
    IN  /\ op' = "CorrectAddress" /\ address' = original_address
        /\ limit' = max_suggestions /\ min_similarity' = min_sim
        /\ store_failure' = failing
        /\ IF original_address = <<>>
           THEN /\ response' = [code |-> "INVALID_REQUEST", corrected_address |-> <<>>,
                                suggestions |-> <<>>, was_corrected |-> FALSE,
                                variants_checked |-> 0]
                /\ parsed' = NoParse /\ searches' = <<>> /\ pool' = <<>>
                /\ raised' = FALSE /\ reads' = 0
           ELSE \E out \in correct_address(original_address, max_suggestions,
                                           min_sim, failing) :
                    /\ response' = CorrectAddressResponse(original_address, out)
                    /\ parsed' = out.parsed /\ searches' = out.searches
                    /\ pool' = out.pool /\ raised' = out.raised
                    /\ reads' = StatementsSent(out.searches)
        /\ query' = <<>> /\ fts_candidates' = <<>> /\ fallback' = FALSE
        /\ candidates' = <<>> /\ scanned' = 0 /\ kept' = <<>> /\ result' = <<>>
        /\ components' = NoComponents /\ rows' = <<>> /\ scored' = <<>>
        /\ search_result' = <<>>
        /\ NoGeocodeCall
        /\ UNCHANGED <<store_vars, fast_corrector>>

\* the requests CorrectAddress is called with
CorrectRequests ==
    { <<>>, <<" ">>, <<"a">>, <<"-", "-">>, <<"a", "b">>, <<" ", "A", "b", " ">>,
      <<"o", "a", "b", "a", "b">>, <<"a", "b", " ", "o", "b">> }

(***************************************************************************)
(* Specification                                                           *)
(***************************************************************************)
vars == <<street_dictionary, city_dictionary, buildings, db_cities,
          use_external_services, op, query, limit, min_similarity, reads,
          raised, fts_candidates, fallback, candidates, scanned, kept, result,
          components, address, rows, scored, search_result, algorithm,
          parser_outcome, normalization_method, corrector_calls,
          fast_corrector, store_failure, parsed, searches, pool, response,
          norm_address, norm_reordered, norm_flag, norm_calls, norm_first,
          norm_result, norm_other,
          street_dictionary_fts, city_dictionary_fts, street_seq, city_seq,
          scan_order, build_pc, builds, run_store, prev_run_store, run_before,
          lev_weight, comp_weight, bm25_weight, pair, gap, prev_gap>>

\* the databases and configurations the services are started on
Deployments ==
    { <<1, 1, 1, TRUE, TRUE>>, <<2, 2, 2, FALSE, TRUE>>, <<3, 3, 3, TRUE, TRUE>>,
      <<4, 4, 4, FALSE, TRUE>>, <<4, 4, 4, TRUE, FALSE>>, <<5, 4, 5, FALSE, TRUE>> }

\* the rows the insert triggers have put into an index
IndexOf(entries, name) ==
    {[rowid |-> r.id, name |-> r[name], normalized_name |-> r.normalized_name]
     : r \in entries}

\* the largest id handed out for the rows
MaxId(entries) ==
    IF entries = {} THEN 0
    ELSE CHOOSE m \in {r.id : r \in entries} : \A r \in entries : r.id <= m

\* the dictionaries were built before the services started; no build runs
BuiltBefore ==
    /\ street_dictionary_fts = IndexOf(street_dictionary, "street_name")
    /\ city_dictionary_fts = IndexOf(city_dictionary, "city_name")
    /\ street_seq = MaxId(street_dictionary) /\ city_seq = MaxId(city_dictionary)
    /\ scan_order = "rowid" /\ build_pc = "idle" /\ builds = 0
    /\ run_store = {} /\ prev_run_store = {} /\ run_before = <<{}, {}, {}, {}>>

\* the weights of the engine as shipped; no other weights have been tried
NoWeightsTried ==
    /\ lev_weight = <<1, 4>> /\ comp_weight = <<3, 5>> /\ bm25_weight = <<3, 20>>
    /\ pair = <<>> /\ gap = RZero /\ prev_gap = RZero

\* none of the functions specified on their own has been applied
NoPureCall == NoWeightsTried

\* normalize_address_for_comparison has not been called
NoNormalizeCall ==
    /\ norm_address = <<>> /\ norm_reordered = <<>> /\ norm_flag = FALSE
    /\ norm_calls = 0 /\ norm_first = <<>> /\ norm_result = <<>> /\ norm_other = <<>>

\* no call in progress: the frame of the previous call is gone
Idle ==
    /\ op = "idle" /\ limit = 1 /\ reads = 0 /\ raised = FALSE
    /\ query = <<>> /\ min_similarity = <<3, 5>>
    /\ fts_candidates = <<>> /\ fallback = FALSE /\ candidates = <<>>
    /\ scanned = 0 /\ kept = <<>> /\ result = <<>>
    /\ components = NoComponents
    /\ address = <<>> /\ rows = <<>> /\ scored = <<>> /\ search_result = <<>>
    /\ algorithm = "" /\ parser_outcome = "unused"
    /\ normalization_method = "" /\ corrector_calls = 0
    /\ store_failure = FALSE /\ parsed = NoParse /\ searches = <<>>
    /\ pool = <<>> /\ response = NoResponse

Init ==
    /\ \E d \in Deployments :
          /\ street_dictionary = StreetDicts[d[1]]
          /\ city_dictionary = CityDicts[d[2]]
          /\ buildings = BuildingStores[d[3]]
          /\ use_external_services = d[4]
          /\ fast_corrector = d[5]
    /\ db_cities \in DbCitiesOf(buildings)
    /\ Idle
    /\ NoNormalizeCall
    /\ NoPureCall
    /\ BuiltBefore

CorrectStreet ==
    /\ op = "idle"
    /\ \E q \in Queries, lim \in Limits, min_sim \in MinSimilarities :
           correct_street(q, lim, min_sim)
    /\ NoCorrectAddressCall /\ UNCHANGED <<fast_corrector, normalize_vars, build_vars, pure_vars>>

CorrectCity ==
    /\ op = "idle"
    /\ \E q \in Queries, lim \in Limits, min_sim \in MinSimilarities :
           correct_city(q, lim, min_sim)
    /\ NoCorrectAddressCall /\ UNCHANGED <<fast_corrector, normalize_vars, build_vars, pure_vars>>

AdvancedSearch ==
    /\ op = "idle"
    /\ \E r \in SearchRequests, lim \in Limits : advanced_search(r[1], r[2], lim)
    /\ NoCorrectAddressCall /\ UNCHANGED <<fast_corrector, normalize_vars, build_vars, pure_vars>>

\* a handler that switches the parser client of the servicer while it serves
SearchAddressMutant ==
    /\ op = "idle"
    /\ op' = "SearchAddress" /\ use_external_services' = ~use_external_services
    /\ UNCHANGED <<street_dictionary, city_dictionary, buildings, db_cities,
                   fast_corrector, limit, reads, raised, corrector_vars,
                   search_vars, geocode_vars, correct_address_vars,
                   normalize_vars, build_vars, pure_vars>>

SearchAddress ==
    /\ op = "idle"
    /\ \E a \in RequestAddresses, lim \in 0..MaxLimit, algo \in Algorithms :
           search_address(a, lim, algo)
    /\ NoCorrectAddressCall /\ UNCHANGED <<fast_corrector, normalize_vars, build_vars, pure_vars>>

\* the requests' min_similarity; 0 is the unset field
RequestMinSimilarities == {RZero, <<3, 5>>}

CorrectAddress ==
    /\ op = "idle"
    /\ \E a \in CorrectRequests, n \in 0..MaxLimit, min_sim \in RequestMinSimilarities,
          failing \in BOOLEAN :
           correct_address_request(a, n, min_sim, failing)
    /\ UNCHANGED <<normalize_vars, build_vars, pure_vars>>

\* the caller has taken the outcome; the worker is free for the next call
Return ==
    /\ op # "idle"
    /\ op' = "idle" /\ limit' = 1 /\ reads' = 0 /\ raised' = FALSE
    /\ NoCorrectorCall /\ NoSearchCall /\ NoGeocodeCall
    /\ NoCorrectAddressCall
    /\ UNCHANGED <<store_vars, fast_corrector, normalize_vars, build_vars,
                   pure_vars>>

Next ==
    \/ CorrectStreet
    \/ CorrectCity
    \/ AdvancedSearch
    \/ SearchAddress
    \/ CorrectAddress
    \/ Return

Spec == Init /\ [][Next]_vars

(***************************************************************************)
(* Specification of normalize_address_for_comparison as a function         *)
(***************************************************************************)
\* longest address drawn character by character
MaxAddressLen == 4

\* the characters addresses are drawn from; "," stands for each of , ; :
AddressAlphabet == {"a", "b", "A", "sh", "1", ",", " "}

AddressStrings == UNION {[1..k -> AddressAlphabet] : k \in 0..MaxAddressLen}

\* longer addresses, of three and four tokens
SampleAddresses ==
    { <<"sh", " ", "b", "a", ",", " ", "1", "a">>,
      <<"A", "b", ",", "a", " ", "1">>,
      <<"b", " ", "sh", ",", "a", " ", "sh">>,
      <<" ", "1", "1", ",", ",", "b", " ", "A", " ">>,
      <<"b", "a", " ", "a", "b", " ", "1", "b", " ", "a">> }

\* the tokens of an address: what whitespace and , ; : separate
AddressTokens(addr) ==
    Split([i \in 1..Len(addr) |-> IF addr[i] = "," THEN " " ELSE addr[i]])

\* separators put between the tokens of a reordered address
Separators == { <<" ">>, <<",">>, <<",", " ">> }

RECURSIVE JoinWith(_, _)
JoinWith(words, sep) ==
    IF words = <<>> THEN <<>>
    ELSE IF Len(words) = 1 THEN Head(words)
    ELSE Head(words) \o sep \o JoinWith(Tail(words), sep)

\* the addresses made of the tokens of addr in any order
Reorderings(addr) ==
    LET toks == AddressTokens(addr)
        n == Len(toks)
        perms == {p \in [1..n -> 1..n] : \A i, j \in 1..n : i # j => p[i] # p[j]}
    IN  {JoinWith([i \in 1..n |-> toks[p[i]]], sep) : p \in perms, sep \in Separators}

\* everything outside the normalization stays as the services start
ServicesIdle ==
    /\ street_dictionary = StreetDicts[4] /\ city_dictionary = CityDicts[4]
    /\ buildings = BuildingStores[4] /\ db_cities \in DbCitiesOf(buildings)
    /\ use_external_services = FALSE /\ fast_corrector = TRUE
    /\ Idle
    /\ BuiltBefore

service_vars ==
    <<street_dictionary, city_dictionary, buildings, db_cities,
      use_external_services, op, query, limit, min_similarity, reads,
      raised, fts_candidates, fallback, candidates, scanned, kept, result,
      components, address, rows, scored, search_result, algorithm,
      parser_outcome, normalization_method, corrector_calls,
      fast_corrector, store_failure, parsed, searches, pool, response>>

InitNormalize ==
    /\ ServicesIdle
    /\ NoPureCall
    /\ norm_address \in AddressStrings \cup SampleAddresses
    /\ norm_reordered \in Reorderings(norm_address)
    /\ norm_flag \in BOOLEAN
    /\ norm_calls = 0 /\ norm_first = <<>> /\ norm_result = <<>> /\ norm_other = <<>>

\* the function applied to the address and to its reordering
NormalizeAddress ==
    /\ norm_calls = 0
    /\ norm_first' = normalize_address_for_comparison(norm_address, norm_flag)
    /\ norm_result' = normalize_address_for_comparison(norm_address, norm_flag)
    /\ norm_other' = normalize_address_for_comparison(norm_reordered, norm_flag)
    /\ norm_calls' = 1
    /\ UNCHANGED <<service_vars, build_vars, pure_vars, norm_address, norm_reordered, norm_flag>>

\* the function applied to its own output
NormalizeAgain ==
    /\ norm_calls = 1
    /\ norm_result' = normalize_address_for_comparison(norm_result, norm_flag)
    /\ norm_calls' = 2
    /\ UNCHANGED <<service_vars, build_vars, pure_vars, norm_address, norm_reordered,
                   norm_flag, norm_first, norm_other>>

NextNormalize ==
    \/ NormalizeAddress
    \/ NormalizeAgain

SpecNormalize == InitNormalize /\ [][NextNormalize]_vars

(***************************************************************************)
(* create_dictionaries: the dictionary build                               *)
(***************************************************************************)
\* most rows the record store is given
MaxBuildings == 3

\* most runs of create_dictionaries.main
MaxBuilds == 2

\* WHERE col IS NOT NULL AND col != ''
Named(bs, col) == {b \in bs : b[col] # <<>>}

\* the expression of the GROUP BY: LOWER(TRIM(col))
GroupKey(b, col) == SqlLower(Trim(b[col]))

GroupOf(bs, col, key) == {b \in Named(bs, col) : GroupKey(b, col) = key}

\* the bare column of the aggregate SELECT: the value of the row of the group
\* that the scan meets first, by rowid or by the index on the column
BareColumn(group, col, order) ==
    IF order = "rowid"
    THEN (CHOOSE b \in group : \A c \in group : b.id <= c.id)[col]
    ELSE CHOOSE v \in {b[col] : b \in group} : \A c \in group : StrLeq(v, c[col])

\* the groups in the order the GROUP BY delivers them
SortedKeys(keys) ==
    CHOOSE o \in Orderings(keys) :
        \A i, j \in 1..Cardinality(keys) : i < j => StrLeq(o[i], o[j])

\* SELECT col, LOWER(TRIM(col)), COUNT(*) FROM buildings ... GROUP BY ...
Selected(bs, col, order) ==
    LET keys == SortedKeys({GroupKey(b, col) : b \in Named(bs, col)})
    IN  [k \in 1..Len(keys) |->
            [name |-> BareColumn(GroupOf(bs, col, keys[k]), col, order),
             usage_count |-> Cardinality(GroupOf(bs, col, keys[k]))]]

\* a plain INSERT of every selected row, the UNIQUE constraint left out
InsertOrIgnoreMutant(selected, k, entries, seq, name) ==
    [entries |-> entries \cup
                 {IF name = "street_name"
                  THEN StreetRow(seq + i, selected[i].name, selected[i].usage_count)
                  ELSE CityRow(seq + i, selected[i].name, selected[i].usage_count)
                  : i \in k..Len(selected)},
     seq |-> seq + Len(selected)]

RECURSIVE InsertOrIgnore(_, _, _, _, _)
\* INSERT OR IGNORE of the selected rows: a row whose name is already there is
\* skipped (UNIQUE); every attempt takes the next value of the AUTOINCREMENT id
InsertOrIgnore(selected, k, entries, seq, name) ==
    IF k > Len(selected) THEN [entries |-> entries, seq |-> seq]
    ELSE IF \E e \in entries : e[name] = selected[k].name
         THEN InsertOrIgnore(selected, k + 1, entries, seq + 1, name)
    ELSE InsertOrIgnore(
             selected, k + 1,
             entries \cup {IF name = "street_name"
                           THEN StreetRow(seq + 1, selected[k].name,
                                          selected[k].usage_count)
                           ELSE CityRow(seq + 1, selected[k].name,
                                        selected[k].usage_count)},
             seq + 1, name)

\* the addresses import_osm may insert: city, street, housenumber
ImportedAddresses ==
    { << <<"a", "b">>, <<"a", "b">>, <<"1">> >>,
      << <<"a", "b">>, <<" ", "a", "b">>, <<"1">> >>,
      << <<"A", "b">>, <<"o", "b", " ", " ", "a">>, <<>> >> }

\* INSERT INTO buildings of import_osm
ImportBuilding ==
    /\ op = "idle"
    /\ Cardinality(buildings) < MaxBuildings
    /\ \E a \in ImportedAddresses :
           buildings' = buildings \cup {BuildingRow(MaxId(buildings) + 1, a[1], a[2], a[3])}
    /\ UNCHANGED <<street_dictionary, city_dictionary, db_cities,
                   use_external_services, fast_corrector, build_vars>>
    /\ UNCHANGED <<op, limit, reads, raised, corrector_vars, search_vars,
                   geocode_vars, correct_address_vars, normalize_vars, pure_vars>>

\* main up to the commit of create_street_dictionary
CreateStreetDictionary ==
    /\ op = "idle" /\ build_pc = "idle" /\ builds < MaxBuilds
    /\ buildings # {}
    /\ LET ins == InsertOrIgnore(Selected(buildings, "street", scan_order), 1,
                                 street_dictionary, street_seq, "street_name")
       IN  /\ street_dictionary' = ins.entries
           /\ street_seq' = ins.seq
           /\ street_dictionary_fts' =
                  street_dictionary_fts
                  \cup IndexOf(ins.entries \ street_dictionary, "street_name")
    /\ build_pc' = "city"
    /\ run_store' = buildings /\ prev_run_store' = run_store
    /\ run_before' = <<street_dictionary, city_dictionary,
                       street_dictionary_fts, city_dictionary_fts>>
    /\ UNCHANGED <<city_dictionary, city_dictionary_fts, city_seq, scan_order,
                   builds, buildings, db_cities, use_external_services,
                   fast_corrector>>
    /\ UNCHANGED <<op, limit, reads, raised, corrector_vars, search_vars,
                   geocode_vars, correct_address_vars, normalize_vars, pure_vars>>

\* create_city_dictionary, create_indexes and the end of main
CreateCityDictionary ==
    /\ op = "idle" /\ build_pc = "city"
    /\ LET ins == InsertOrIgnore(Selected(buildings, "city", scan_order), 1,
                                 city_dictionary, city_seq, "city_name")
       IN  /\ city_dictionary' = ins.entries
           /\ city_seq' = ins.seq
           /\ city_dictionary_fts' =
                  city_dictionary_fts
                  \cup IndexOf(ins.entries \ city_dictionary, "city_name")
    /\ build_pc' = "idle" /\ builds' = builds + 1
    /\ UNCHANGED <<street_dictionary, street_dictionary_fts, street_seq,
                   scan_order, run_store, prev_run_store, run_before,
                   buildings, db_cities, use_external_services, fast_corrector>>
    /\ UNCHANGED <<op, limit, reads, raised, corrector_vars, search_vars,
                   geocode_vars, correct_address_vars, normalize_vars, pure_vars>>

\* main on an empty buildings table: "Buildings table is empty!", return
EmptyStoreRun ==
    /\ op = "idle" /\ build_pc = "idle" /\ builds < MaxBuilds
    /\ buildings = {}
    /\ builds' = builds + 1
    /\ run_store' = buildings /\ prev_run_store' = run_store
    /\ run_before' = <<street_dictionary, city_dictionary,
                       street_dictionary_fts, city_dictionary_fts>>
    /\ UNCHANGED <<street_dictionary, city_dictionary, street_dictionary_fts,
                   city_dictionary_fts, street_seq, city_seq, scan_order,
                   build_pc, buildings, db_cities, use_external_services,
                   fast_corrector>>
    /\ UNCHANGED <<op, limit, reads, raised, corrector_vars, search_vars,
                   geocode_vars, correct_address_vars, normalize_vars, pure_vars>>

\* the queries that run while the dictionaries are built
BuildQueries == { <<"a", "b">>, <<"o", "b">> }

QueryStreet ==
    /\ op = "idle"
    /\ \E q \in BuildQueries : correct_street(q, 1, <<1, 2>>)
    /\ NoCorrectAddressCall
    /\ UNCHANGED <<fast_corrector, normalize_vars, build_vars, pure_vars>>

QueryCity ==
    /\ op = "idle"
    /\ \E q \in BuildQueries : correct_city(q, 1, <<1, 2>>)
    /\ NoCorrectAddressCall
    /\ UNCHANGED <<fast_corrector, normalize_vars, build_vars, pure_vars>>

\* an empty database file: no row, no dictionary, no run of the build yet
InitBuild ==
    /\ street_dictionary = {} /\ city_dictionary = {} /\ buildings = {}
    /\ db_cities \in DbCitiesOf(buildings)
    /\ use_external_services = FALSE /\ fast_corrector = TRUE
    /\ Idle
    /\ NoNormalizeCall
    /\ NoPureCall
    /\ street_dictionary_fts = {} /\ city_dictionary_fts = {}
    /\ street_seq = 0 /\ city_seq = 0
    /\ scan_order \in {"rowid", "index"}
    /\ build_pc = "idle" /\ builds = 0
    /\ run_store = {} /\ prev_run_store = {} /\ run_before = <<{}, {}, {}, {}>>

NextBuild ==
    \/ ImportBuilding
    \/ CreateStreetDictionary
    \/ CreateCityDictionary
    \/ EmptyStoreRun
    \/ QueryStreet
    \/ QueryCity
    \/ Return

SpecBuild == InitBuild /\ [][NextBuild]_vars

(***************************************************************************)
(* Specification of the final_score formula under varied weights           *)
(***************************************************************************)
\* the weighted sum of the three signals
WeightedScoreMutant(w_lev, w_comp, w_bm25, lev_score, component_score, normalized_bm25) ==
    RAdd(RAdd(RMul(w_lev, lev_score),
              RMul(RAdd(ROne, RMul(<<-1, 1>>, w_comp)), component_score)),
         RMul(w_bm25, normalized_bm25))

\* final_score = w_lev * lev_score + w_comp * component_score
\*               + w_bm25 * normalized_bm25
WeightedScore(w_lev, w_comp, w_bm25, lev_score, component_score, normalized_bm25) ==
    RAdd(RAdd(RMul(w_lev, lev_score), RMul(w_comp, component_score)),
         RMul(w_bm25, normalized_bm25))

\* the grid of grid_search, in tenths
lev_range == {Reduce(k, 10) : k \in 1..5}

comp_range == {Reduce(k, 10) : k \in 3..7}

bm25_range == {Reduce(k, 10) : k \in 1..4}

\* values the signals of a fetched row take
SignalValues == {RZero, <<1, 2>>, <<7, 8>>, ROne}

\* component scores of an imperfect match
ImperfectScores == {<<-3, 10>>, RZero, <<1, 2>>, <<9, 10>>}

\* two candidates that differ in the component score only
CandidatePairs ==
    [lev_score : SignalValues, normalized_bm25 : SignalValues,
     perfect : {ROne}, imperfect : ImperfectScores]

\* final_score of the perfect match minus final_score of the imperfect one
ScoreGap(w_lev, w_comp, w_bm25, p) ==
    RAdd(WeightedScore(w_lev, w_comp, w_bm25,
                       p.lev_score, p.perfect, p.normalized_bm25),
         RMul(<<-1, 1>>,
              WeightedScore(w_lev, w_comp, w_bm25,
                            p.lev_score, p.imperfect, p.normalized_bm25)))

InitWeights ==
    /\ ServicesIdle
    /\ NoNormalizeCall
    /\ lev_weight \in lev_range /\ bm25_weight \in bm25_range
    /\ comp_weight \in comp_range
    /\ pair \in CandidatePairs
    /\ gap = ScoreGap(lev_weight, comp_weight, bm25_weight, pair)
    /\ prev_gap = gap

\* the next combination of the grid: a larger component weight, the other
\* weights as they are
RaiseComponentWeight ==
    /\ \E w \in comp_range :
           /\ RLt(comp_weight, w)
           /\ comp_weight' = w
           /\ gap' = ScoreGap(lev_weight, w, bm25_weight, pair)
    /\ prev_gap' = gap
    /\ UNCHANGED <<service_vars, build_vars, normalize_vars, lev_weight,
                   bm25_weight, pair>>

NextWeights == RaiseComponentWeight

SpecWeights == InitWeights /\ [][NextWeights]_vars

(***************************************************************************)
(* Properties of the dictionary corrector                                  *)
(***************************************************************************)
CorrectorOps == {"correct_street", "correct_city"}

ResultIndices == 1..Len(result)

\* the name an entry of a result list or a dictionary row carries
EntryName(x) == IF "street_name" \in DOMAIN x THEN x.street_name ELSE x.city_name

\* number of kept entries whose similarity is at least 0.8
GoodKept == Cardinality({i \in 1..Len(kept) : RLeq(<<4, 5>>, kept[i].similarity)})

\* C1: every entry returned by correct_street and correct_city, from the
\* prefix index or from the fallback scan, has
\* min_similarity <= similarity <= 1.0
C1_ReturnedAboveThreshold ==
    op \in CorrectorOps =>
        \A i \in ResultIndices :
            /\ RLeq(min_similarity, result[i].similarity)
            /\ RLeq(result[i].similarity, ROne)

\* C1 witness: a fallback scan returned an entry and rejected another one
C1_Witness ==
    /\ op = "correct_street" /\ fallback
    /\ result # <<>>
    /\ Len(kept) < scanned

\* C2: a query that is empty or shorter than 2 characters gives an empty
\* list, raises nothing and sends no statement to the store
C2_ShortQueryEmpty ==
    (op \in CorrectorOps /\ Len(query) < 2) =>
        /\ result = <<>>
        /\ ~raised
        /\ reads = 0

\* C2 witness: a one-character query against a non-empty dictionary
C2_Witness ==
    /\ op = "correct_city" /\ Len(query) = 1
    /\ city_dictionary # {}
    /\ result = <<>>

\* C3 (as claimed): a query of length >= 2 whose sanitized form is empty
\* gives an empty result and no error; no malformed MATCH reaches the store
C3_EmptySanitizedQueryEmpty ==
    (op \in CorrectorOps /\ Len(query) >= 2 /\ EscapeFts5(query) = <<>>) =>
        /\ ~raised
        /\ result = <<>>
        /\ reads = 0

\* C4: the edit-distance scan query runs exactly when the prefix search
\* returned no candidate; when the prefix search returned candidates, the
\* loop sees them only and nothing else is returned
C4_FallbackOnlyWhenPrefixEmpty ==
    (op \in CorrectorOps /\ reads >= 1 /\ ~raised) =>
        /\ fallback <=> (fts_candidates = <<>>)
        /\ fts_candidates # <<>> =>
              /\ candidates = fts_candidates
              /\ \A i \in 1..Len(kept) :
                     \E j \in 1..Len(fts_candidates) :
                         EntryName(kept[i]) = EntryName(fts_candidates[j])
              /\ \A i \in ResultIndices :
                     \E j \in 1..Len(fts_candidates) :
                         EntryName(result[i]) = EntryName(fts_candidates[j])

\* C4 witness: the prefix search found a candidate, min_similarity rejected
\* all of them, and a dictionary entry outside the candidates would have
\* passed: it was not evaluated and the result is empty
C4_Witness ==
    /\ op = "correct_city" /\ ~fallback
    /\ fts_candidates # <<>>
    /\ kept = <<>> /\ result = <<>>
    /\ \E r \in city_dictionary :
          /\ \A j \in 1..Len(fts_candidates) : fts_candidates[j] # r
          /\ RLeq(min_similarity, Similarity(PyLower(query), r.normalized_name))

\* C5: correct_street counts the kept candidates of similarity >= 0.8 and
\* stops the scan when the count reaches 2 x limit: never more than
\* 2 x limit of them are collected, the candidate that completes the count
\* is the last one evaluated, and without a full count every candidate is
\* evaluated
C5_EarlyExit ==
    op = "correct_street" =>
        /\ GoodKept <= 2 * limit
        /\ scanned <= Len(candidates)
        /\ GoodKept = 2 * limit =>
              /\ kept[Len(kept)].normalized_name = candidates[scanned].normalized_name
              /\ RLeq(<<4, 5>>, kept[Len(kept)].similarity)
        /\ GoodKept < 2 * limit => scanned = Len(candidates)
        /\ \A i \in 1..Len(kept) :
               \E j \in 1..scanned : kept[i].street_name = candidates[j].street_name

\* C5 witness: the scan stopped with candidates left over
C5_Witness ==
    /\ op = "correct_street"
    /\ GoodKept = 2 * limit
    /\ scanned < Len(candidates)

\* the blended score as the claim states it
C6_Score(x) ==
    LET popularity == IF x.usage_count >= 1000 THEN ROne
                      ELSE Reduce(x.usage_count, 1000)
    IN  RAdd(RMul(<<7, 10>>, x.similarity), RMul(<<3, 10>>, popularity))

\* C6: the returned list is in non-increasing blended score order, has at
\* most limit entries, and holds the highest scoring kept candidates
C6_RankedByBlendedScore ==
    op \in CorrectorOps =>
        /\ Len(result) = Min2(limit, Len(kept))
        /\ \A i \in ResultIndices : \E k \in 1..Len(kept) : result[i] = kept[k]
        /\ \A i, j \in ResultIndices :
               i < j => RLeq(C6_Score(result[j]), C6_Score(result[i]))
        /\ \A k \in 1..Len(kept) :
               (\A i \in ResultIndices : result[i] # kept[k]) =>
                   \A i \in ResultIndices : RLeq(C6_Score(kept[k]), C6_Score(result[i]))

\* C6 witness: more candidates kept than limit, and the order of the scan
\* is not the order of the scores
C6_Witness ==
    /\ op = "correct_street"
    /\ Len(kept) > limit
    /\ \E i, j \in 1..Len(kept) :
           i < j /\ RLt(C6_Score(kept[i]), C6_Score(kept[j]))
    /\ result # Take(kept, limit)

(***************************************************************************)
(* Properties of the record search                                         *)
(***************************************************************************)
\* the last operation ran AdvancedSearchEngine.search
AdvancedRan ==
    \/ op = "search"
    \/ op = "SearchAddress" /\ algorithm = "advanced"

ScoredIndices == 1..Len(scored)

SearchIndices == 1..Len(search_result)

\* the sanitized components the search scores against
SanitizedCity == EscapeFts5(PyStrip(components.city))

SanitizedRoad == EscapeFts5(PyStrip(components.road))

SanitizedHouse == EscapeFts5(PyStrip(components.house_number))

\* final_score as the claim states it
C7_Score(sc) ==
    RAdd(RAdd(RMul(<<25, 100>>, sc.lev_score), RMul(<<60, 100>>, sc.component_score)),
         RMul(<<15, 100>>, sc.normalized_bm25))

\* C7: every candidate gets final_score = 0.25 x similarity + 0.60 x
\* component_score + 0.15 x relevance_score; the candidates are returned in
\* non-increasing final_score order, cut to the limit highest scoring ones
C7_SortedByFinalScore ==
    AdvancedRan =>
        /\ \A k \in ScoredIndices : scored[k].final_score = C7_Score(scored[k])
        /\ Len(search_result) = Min2(limit, Len(scored))
        /\ \A i \in SearchIndices :
               \E k \in ScoredIndices :
                   /\ search_result[i].id = scored[k].row.id
                   /\ search_result[i].score = C7_Score(scored[k])
        /\ \A i, j \in SearchIndices :
               i < j => RLeq(search_result[j].score, search_result[i].score)
        /\ \A k \in ScoredIndices :
               (\A i \in SearchIndices : search_result[i].id # scored[k].row.id) =>
                   \A i \in SearchIndices :
                       RLeq(C7_Score(scored[k]), search_result[i].score)

\* C7 witness: more candidates fetched than limit, and the best fetched row
\* is not the best scored one
C7_Witness ==
    /\ op = "search"
    /\ Len(scored) > limit
    /\ RLt(scored[1].final_score, scored[2].final_score)
    /\ search_result[1].id = scored[2].row.id

\* C8 (as claimed): every final_score lies in [0, 1]
C8_FinalScoreInUnitInterval ==
    AdvancedRan =>
        \A i \in SearchIndices :
            /\ RLeq(RZero, search_result[i].score)
            /\ RLeq(search_result[i].score, ROne)

\* C8 (amended): every final_score lies in [-0.18, 1]; it is negative only
\* for a candidate without house number when the query asks for one
C8_FinalScoreBounds ==
    AdvancedRan =>
        /\ \A k \in ScoredIndices :
              /\ RLeq(<<-18, 100>>, scored[k].final_score)
              /\ RLeq(scored[k].final_score, ROne)
              /\ RLt(scored[k].final_score, RZero) =>
                    (SanitizedHouse # <<>> /\ scored[k].row.housenumber = <<>>)
        /\ \A i \in SearchIndices :
              /\ RLeq(<<-18, 100>>, search_result[i].score)
              /\ RLeq(search_result[i].score, ROne)

\* C8 witness: a candidate is returned with a negative final_score
C8_Witness ==
    /\ AdvancedRan
    /\ \E i \in SearchIndices : RLt(search_result[i].score, RZero)

\* the grade of one field as the claim states it: 1.0 on equality ignoring
\* case, the partial credit on containment, -0.3 for a missing house number
C9_ClaimedGrade(q, rec, partial, missing) ==
    IF PyLower(q) = PyLower(rec) THEN <<1, 1>>
    ELSE IF rec # <<>> /\ Contains(PyLower(rec), PyLower(q)) THEN partial
    ELSE IF rec = <<>> THEN missing
    ELSE RZero

C9_ClaimedScore(row) ==
    LET n == (IF SanitizedCity # <<>> THEN 1 ELSE 0)
             + (IF SanitizedRoad # <<>> THEN 1 ELSE 0)
             + (IF SanitizedHouse # <<>> THEN 1 ELSE 0)
        sum == RAdd(RAdd(IF SanitizedCity # <<>>
                         THEN C9_ClaimedGrade(SanitizedCity, row.city, <<1, 2>>, RZero)
                         ELSE RZero,
                         IF SanitizedRoad # <<>>
                         THEN C9_ClaimedGrade(SanitizedRoad, row.street, <<7, 10>>, RZero)
                         ELSE RZero),
                    IF SanitizedHouse # <<>>
                    THEN C9_ClaimedGrade(SanitizedHouse, row.housenumber, <<1, 2>>, <<-3, 10>>)
                    ELSE RZero)
    IN  IF n > 0 THEN RMul(sum, <<1, n>>) ELSE RZero

C9_CityGrade(q, rec) ==
    IF rec # <<>> /\ PyLower(q) = PyLower(rec) THEN <<10, 10>>
    ELSE IF rec # <<>> /\ Contains(PyLower(rec), PyLower(q)) THEN <<5, 10>>
    ELSE <<0, 10>>

C9_RoadGrade(q, rec) ==
    LET nq == normalize_address_for_comparison(q, FALSE)
        nr == normalize_address_for_comparison(rec, FALSE)
    IN  IF nq = nr THEN <<10, 10>>
        ELSE IF nq # <<>> /\ nr # <<>> /\ Contains(nr, nq) THEN <<7, 10>>
        ELSE <<0, 10>>

C9_HouseGrade(q, rec) ==
    IF rec = <<>> THEN <<-3, 10>>
    ELSE IF q = rec THEN <<10, 10>>
    ELSE IF Contains(rec, q) THEN <<5, 10>>
    ELSE <<0, 10>>

C9_AmendedScore(row) ==
    LET grades ==
            (IF SanitizedCity # <<>> THEN <<C9_CityGrade(SanitizedCity, row.city)>> ELSE <<>>)
            \o (IF SanitizedRoad # <<>> THEN <<C9_RoadGrade(SanitizedRoad, row.street)>> ELSE <<>>)
            \o (IF SanitizedHouse # <<>> THEN <<C9_HouseGrade(SanitizedHouse, row.housenumber)>> ELSE <<>>)
        tenths == IF grades = <<>> THEN 0
                  ELSE IF Len(grades) = 1 THEN grades[1][1]
                  ELSE IF Len(grades) = 2 THEN grades[1][1] + grades[2][1]
                  ELSE grades[1][1] + grades[2][1] + grades[3][1]
    IN  IF grades = <<>> THEN <<0, 1>> ELSE <<tenths, 10 * Len(grades)>>

EscalationThreshold == <<28, 100>>

\* the first-tier search's best final_score is below the threshold
LowFirstTierScore ==
    search_result # <<>> /\ RLt(search_result[1].score, EscalationThreshold)

\* the parser answered without any usable component
NoUsableComponents ==
    parser_outcome = "ok" /\ components = NoComponents

\* a low first-tier score does occur in SearchAddress
C10_LowScoreSeen ==
    op = "SearchAddress" /\ algorithm = "advanced" /\ LowFirstTierScore

\* C10 (as claimed): SearchAddress invokes the dictionary corrector whenever
\* the best first-tier final_score is below 0.28 or the parser returned no
\* usable components, and does not invoke it when the best score is >= 0.28
C10_EscalationPolicy ==
    (op = "SearchAddress" /\ algorithm = "advanced") =>
        /\ (LowFirstTierScore \/ NoUsableComponents) => corrector_calls >= 1
        /\ (search_result # <<>> /\ ~LowFirstTierScore /\ ~NoUsableComponents)
               => corrector_calls = 0


(***************************************************************************)
(* Properties of CorrectAddress and of error handling                      *)
(***************************************************************************)
\* C11 (as claimed): when the parser yields neither a city nor a road, the full
\* original query is searched as a street and as a city, the hits of both
\* searches form the suggestion pool, and the request does not fail
C11_StructuralFallback ==
    (/\ op = "CorrectAddress" /\ address # <<>>
     /\ fast_corrector /\ ~store_failure
     /\ PyStrip(parsed.city) = <<>> /\ PyStrip(parsed.road) = <<>>)
    => /\ response.code = "OK"
       /\ Len(searches) = 2
       /\ searches[1].kind = "street" /\ searches[1].query = address
       /\ searches[2].kind = "city" /\ searches[2].query = address
       /\ pool = Suggestions("street", searches[1].hits)
                 \o Suggestions("city", searches[2].hits)

\* the structural fallback does run and collect hits of both dictionaries
C11_FallbackSeen ==
    /\ op = "CorrectAddress" /\ parsed = NoParse /\ response.code = "OK"
    /\ Len(searches) = 2 /\ searches[1].hits # <<>> /\ searches[2].hits # <<>>

\* the records the search step can find for the components settled on; a
\* search without any term returns nothing
C12_Findable ==
    LET city == PyStrip(components.city)
        road == PyStrip(components.road)
        house_number == PyStrip(components.house_number)
        terms == SearchTerms(EscapeFts5(city), EscapeFts5(road),
                             EscapeFts5(house_number), address)
    IN  IF algorithm = "basic"
        THEN IF city = <<>> /\ road = <<>> /\ house_number = <<>> THEN {}
             ELSE {b \in buildings : BasicMatch(b, city, road, house_number)}
        ELSE IF terms = <<>> THEN {} ELSE BuildingFtsRows(terms)

\* the search step ran on the components: what it returned are findable
\* records, as many as the limit allows
C12_SearchStepRan ==
    /\ \A k \in 1..Len(search_result) :
           \E b \in C12_Findable : b.id = search_result[k].id
    /\ Len(search_result) = Min2(Cardinality(C12_Findable), limit)

\* what the naive tokenizer yields: a cached city or none, a token that
\* starts with a digit or none, and the remaining tokens as the road
C12_NaiveComponents ==
    /\ components.city \in {db_cities[k] : k \in DOMAIN db_cities} \cup {<<>>}
    /\ components.house_number # <<>> => IsDigit(components.house_number[1])
    /\ \A k \in 1..Len(components.road) : components.road[k] # ","
    /\ components = SimpleParse(address, db_cities)

\* C12: whatever the parser call of SearchAddress ends with (OK, a non-OK
\* status, an RPC error), the request goes on to the search with a component
\* set, the parser's on OK and the naive tokenizer's otherwise, and does not fail
C12_ParserFailureAbsorbed ==
    op = "SearchAddress" =>
        /\ ~raised
        /\ parser_outcome \in {"ok", "failed", "rpc_error", "unused"}
        /\ parser_outcome = "ok" => components \in ParserAnswers(address)
        /\ parser_outcome # "ok" => C12_NaiveComponents
        /\ parser_outcome # "unused" <=> normalization_method = "libpostal+fts5"
        /\ C12_SearchStepRan

\* an RPC error of the parser, absorbed: the tokenizer's road is searched
\* and records are found
C12_Witness ==
    /\ op = "SearchAddress" /\ parser_outcome = "rpc_error"
    /\ components.road # <<>> /\ search_result # <<>>

\* C13 (as claimed): INVALID_REQUEST exactly for an empty trimmed address;
\* INTERNAL_ERROR without suggestions and with was_corrected = false whenever
\* the store could not be opened at start, is unreachable or a query fails;
\* OK in every other case
C13_StatusCodes ==
    op = "CorrectAddress" =>
        /\ response.code = "INVALID_REQUEST" <=> address = <<>>
        /\ (address # <<>> /\ (~fast_corrector \/ store_failure \/ raised))
               => /\ response.code = "INTERNAL_ERROR"
                  /\ response.suggestions = <<>>
                  /\ ~response.was_corrected
        /\ (address # <<>> /\ fast_corrector /\ ~store_failure /\ ~raised)
               => response.code = "OK"

\* a failing store query does end in INTERNAL_ERROR
C13_InternalErrorSeen ==
    /\ op = "CorrectAddress" /\ store_failure /\ raised
    /\ response.code = "INTERNAL_ERROR"

(***************************************************************************)
(* Properties of the normalization                                         *)
(***************************************************************************)
\* C14: normalization is idempotent: for every address and either setting of
\* remove_house_number, normalizing the normalized address returns it unchanged
C14_NormalizeIdempotent ==
    norm_calls = 2 => norm_result = norm_first

\* a second call on an output that the first call had to filter and to sort
C14_Witness ==
    /\ norm_calls = 2 /\ norm_flag
    /\ norm_first = <<"a", " ", "b">>
    /\ norm_address = <<"b", " ", "sh", ",", "a", " ", "sh">>

\* C15: two addresses made of the same tokens, in any order and separated by
\* blanks or punctuation, normalize to the same string
C15_NormalizeOrderInvariant ==
    norm_calls >= 1 => norm_other = norm_first

\* the tokens really come in another order and the output has several words
C15_Witness ==
    /\ norm_calls >= 1
    /\ AddressTokens(norm_reordered) # AddressTokens(norm_address)
    /\ Len(Split(norm_first)) >= 3
    /\ norm_first # <<>> /\ norm_other = norm_first

(***************************************************************************)
(* Properties of the dictionary build                                      *)
(***************************************************************************)
\* the display name of an entry of either dictionary
DisplayName(e) == IF "street_name" \in DOMAIN e THEN e.street_name ELSE e.city_name

\* C16: in every state reached by changes of the record store and dictionary
\* builds, no two entries of a dictionary share a normalized_name, and the
\* normalized_name of an entry is its display name in lower case, trimmed and
\* with runs of blanks collapsed
C16_DictionaryInvariant ==
    \A dict \in {street_dictionary, city_dictionary} :
        /\ \A e, f \in dict : e.normalized_name = f.normalized_name => e = f
        /\ \A e \in dict : e.normalized_name = CollapseStrip(PyLower(DisplayName(e)))

\* C16: the part of the claim on uniqueness alone
C16_NormalizedNameUnique ==
    \A dict \in {street_dictionary, city_dictionary} :
        \A e, f \in dict : e.normalized_name = f.normalized_name => e = f

\* what one run of the build gives on an empty dictionary
FreshDictionary(bs, col, name) ==
    InsertOrIgnore(Selected(bs, col, scan_order), 1, {}, 0, name).entries

\* an entry without its id
Contents(entries) ==
    {<<DisplayName(e), e.normalized_name, e.usage_count>> : e \in entries}

\* a run of the build has ended on the record store it started from
RunEnded == build_pc = "idle" /\ builds >= 2 /\ run_store = buildings

\* C17: when the record store has changed and the build has run again, each
\* dictionary is the one a fresh build from the present record store gives:
\* one entry per normalized name, present counts, no entry of a vanished name
C17_RebuildReplacesWholesale ==
    (RunEnded /\ prev_run_store # buildings) =>
        /\ Contents(street_dictionary)
               = Contents(FreshDictionary(buildings, "street", "street_name"))
        /\ Contents(city_dictionary)
               = Contents(FreshDictionary(buildings, "city", "city_name"))

\* C18: a second run of the build on an unchanged record store leaves the
\* entries, the usage counts and the prefix indexes of both dictionaries as
\* the first run left them
C18_RebuildIdempotent ==
    (RunEnded /\ prev_run_store = buildings) =>
        <<street_dictionary, city_dictionary,
          street_dictionary_fts, city_dictionary_fts>> = run_before

\* C18: a second run on an unchanged store has ended, every one of its
\* inserts was ignored, and both dictionaries have entries
C18_Witness ==
    /\ RunEnded /\ prev_run_store = buildings
    /\ street_dictionary # {} /\ city_dictionary # {}
    /\ street_seq > MaxId(street_dictionary)
    /\ city_seq > MaxId(city_dictionary)

\* C19: a correct_street or correct_city query that runs during a rebuild sees
\* the dictionaries and indexes either as they were before the rebuild or as
\* they are after it
C19_NoPartialRebuild ==
    (op \in CorrectorOps /\ build_pc = "city") =>
        \/ <<street_dictionary, city_dictionary,
             street_dictionary_fts, city_dictionary_fts>> = run_before
        \/ city_dictionary
               = InsertOrIgnore(Selected(buildings, "city", scan_order), 1,
                                city_dictionary, city_seq, "city_name").entries

C21_BoundedCost ==
    op \in CorrectorOps =>
        /\ ~fallback => (Len(candidates) <= 3 * limit /\ scanned <= 3 * limit)
        /\ (fallback /\ op = "correct_city") => scanned <= CityFallbackLimit
        /\ (fallback /\ op = "correct_street") => scanned <= 3 * limit

\* C21: a street fallback that evaluated the whole dictionary, more rows than
\* any count the code derives from limit
C21_WholeDictionaryScanned ==
    /\ op = "correct_street" /\ fallback
    /\ scanned = Cardinality(street_dictionary)
    /\ scanned > 3 * limit

(***************************************************************************)
(* Properties of the search: exact hits and weights                        *)
(***************************************************************************)
\* the operations that run AdvancedSearchEngine.search
AdvancedOps ==
    op = "search" \/ (op = "SearchAddress" /\ algorithm = "advanced")

\* the records whose city, street and house number are the three components
\* of the query
ExactRecords ==
    {b \in buildings :
        /\ components.city # <<>> /\ components.road # <<>>
        /\ components.house_number # <<>>
        /\ b.city = components.city /\ b.street = components.road
        /\ b.housenumber = components.house_number}

\* C22: when the store holds a record whose city, street and house number are
\* exactly the three components of the query, the advanced search returns it
\* first, with final_score >= 0.95 and its three values unchanged
C22_ExactHitOnTop ==
    (AdvancedOps /\ ExactRecords # {}) =>
        /\ search_result # <<>>
        /\ \E b \in ExactRecords :
               /\ search_result[1].id = b.id
               /\ search_result[1].locality = b.city
               /\ search_result[1].street = b.street
               /\ search_result[1].number = b.housenumber
        /\ RLeq(<<19, 20>>, search_result[1].score)

\* C22: the exact record exists and is not in the returned list at all
C22_ExactRecordCut ==
    /\ AdvancedOps /\ ExactRecords # {}
    /\ search_result # <<>>
    /\ \A k \in 1..Len(search_result) :
           \A b \in ExactRecords : search_result[k].id # b.id

AddressParts ==
    Split([i \in 1..Len(address) |->
              IF address[i] = "," THEN " " ELSE PyLowerChar(address[i])])

IsCityToken(t) == t \in DOMAIN db_cities

IsNumericToken(t) == ~IsCityToken(t) /\ IsDigit(t[1])

IsRoadToken(t) ==
    ~IsCityToken(t) /\ ~IsDigit(t[1]) /\ t \notin simple_parse_prefixes

\* C24: _simple_parse classifies every token of the query: a token equal to
\* a known city name sets the city, a token that starts with a digit sets the
\* house number, and the remaining tokens that are no service words make up
\* the road in input order; no numeric or city token is part of the road
C24_EveryTokenClassified ==
    (op = "SearchAddress" /\ parser_outcome # "ok") =>
        LET parts == AddressParts
            idx == 1..Len(parts)
        IN  /\ (\E i \in idx : IsCityToken(parts[i])) =>
                   \E i \in idx : /\ IsCityToken(parts[i])
                                  /\ components.city = db_cities[parts[i]]
            /\ (\E i \in idx : IsNumericToken(parts[i])) =>
                   \E i \in idx : /\ IsNumericToken(parts[i])
                                  /\ components.house_number = parts[i]
            /\ components.road = Join(SelectSeq(parts, IsRoadToken))
            /\ \A t \in SeqToSet(Split(components.road)) :
                   ~IsCityToken(t) /\ ~IsDigit(t[1])

\* C24: the tokenizer ran on an address whose only numeric token has one
\* digit and returned no house number
C24_OneDigitHouseLost ==
    /\ op = "SearchAddress" /\ parser_outcome # "ok"
    /\ \E i \in 1..Len(AddressParts) : AddressParts[i] = <<"1">>
    /\ components.house_number = <<>>
    /\ components.road # <<>>

(***************************************************************************)
(* Properties of the sanitization                                          *)
(***************************************************************************)
\* no reserved character, no blank at either end, no two blanks in a row
IsSanitized(s) ==
    /\ \A i \in 1..Len(s) : s[i] \notin ReservedChars
    /\ s # <<>> => (~IsSpace(s[1]) /\ ~IsSpace(s[Len(s)]))
    /\ \A i \in 1..(Len(s) - 1) : ~(IsSpace(s[i]) /\ IsSpace(s[i + 1]))

\* C25: the output of _escape_fts5 has no reserved character and no leading,
\* trailing or repeated blank, sanitizing it again changes nothing
C25_SanitizedOutput ==
    op \in CorrectorOps =>
        /\ IsSanitized(EscapeFts5(query))
        /\ EscapeFts5(EscapeFts5(query)) = EscapeFts5(query)

\* C25: the output of _escape_fts5 is sanitized and stable under a second
\* pass, and therefore no syntax error of the prefix index reaches the caller
C25_NoSyntaxErrorSurfaced ==
    op \in CorrectorOps =>
        /\ IsSanitized(EscapeFts5(query))
        /\ EscapeFts5(EscapeFts5(query)) = EscapeFts5(query)
        /\ ~raised

\* the largest of a set of fractions
RMaxOf(S) == CHOOSE m \in S : \A x \in S : RLeq(x, m)

\* the similarities the claim lets a street candidate choose from
C26_Compared(query_lower, normalized) ==
    LET words == Split(normalized)
    IN  {Similarity(query_lower, normalized)}
        \cup (IF Len(words) > 1
              THEN {Similarity(query_lower, words[k]) :
                       k \in {j \in 1..Len(words) : words[j] \notin street_prefixes}}
              ELSE {})

\* C26: the similarity correct_street keeps for a candidate is the largest of
\* the similarity to the whole normalized name and, for a name of several
\* words, the similarity to each word that is no administrative prefix; a
\* name of one word has the whole-name similarity
C26_BestSimilarity ==
    op = "correct_street" =>
        \A i \in 1..Len(kept) :
            REq(kept[i].similarity,
                RMaxOf(C26_Compared(PyLower(query), kept[i].normalized_name)))

\* C26: a kept name of several words, one of them a prefix token, owes its
\* similarity to one of its words, and a kept name of one word is there too
C26_Witness ==
    /\ op = "correct_street"
    /\ \E i \in 1..Len(kept) :
           /\ \E k \in 1..Len(Split(kept[i].normalized_name)) :
                  Split(kept[i].normalized_name)[k] \in street_prefixes
           /\ RLt(Similarity(PyLower(query), kept[i].normalized_name),
                  kept[i].similarity)
    /\ \E i \in 1..Len(kept) : Len(Split(kept[i].normalized_name)) = 1

\* C27: of any two returned entries with equal similarity, the one with the
\* larger usage_count comes first
C27_CommonEntriesWinTies ==
    op \in CorrectorOps =>
        \A i, j \in ResultIndices :
            (i < j /\ REq(result[i].similarity, result[j].similarity)) =>
                result[i].usage_count >= result[j].usage_count

\* C27: of any two returned entries with equal similarity, the one with the
\* larger usage_count comes first unless both counts are 1000 or more, where
\* the blended scores are equal and the order is that of the candidates
C27_CommonEntriesWinTiesBelowCap ==
    op \in CorrectorOps =>
        \A i, j \in ResultIndices :
            (i < j /\ REq(result[i].similarity, result[j].similarity)) =>
                \/ result[i].usage_count >= result[j].usage_count
                \/ result[i].usage_count >= 1000

\* C27: two entries of equal similarity were fetched with the less common one
\* first and are returned with the more common one first
C27_Witness ==
    /\ op \in CorrectorOps /\ Len(result) >= 2 /\ Len(candidates) >= 2
    /\ REq(result[1].similarity, result[2].similarity)
    /\ result[1].usage_count > result[2].usage_count
    /\ result[2].usage_count < 1000
    /\ candidates[1].usage_count < candidates[2].usage_count
    /\ EntryName(result[1]) = EntryName(candidates[2])

(***************************************************************************)
(* Properties of the city-name snapshot                                    *)
(***************************************************************************)
\* C28: the city-name snapshot of GeocodeServicer is filled when the servicer
\* is constructed, and once the record store has been rebuilt and the
\* dictionary build has run on it the snapshot holds the cities of the
\* rebuilt store
C28_SnapshotRefreshed ==
    (build_pc = "idle" /\ builds >= 1 /\ run_store = buildings) =>
        db_cities \in DbCitiesOf(buildings)

\* C28: the store was rebuilt with a city and the snapshot is still the one
\* of the construction
C28_StaleSnapshot ==
    /\ build_pc = "idle" /\ builds >= 1 /\ run_store = buildings
    /\ city_dictionary # {}
    /\ DOMAIN db_cities = {}

(***************************************************************************)
(* Properties of correct_address                                           *)
(***************************************************************************)
\* C29: what correct_address returns: the suggestions are in non-increasing
\* similarity order and at most max_suggestions; with a suggestion the
\* corrected address is the name of the one of highest similarity and
\* was_corrected tells whether it differs from the original ignoring case;
\* with none the corrected address is the original and was_corrected is
\* false; variants_checked is the number of suggestions returned
C29_OutputShape ==
    (op = "CorrectAddress" /\ response.code = "OK") =>
        LET sugg == response.suggestions
        IN  /\ \A i, j \in 1..Len(sugg) :
                   i < j => RLeq(sugg[j].similarity_score, sugg[i].similarity_score)
            /\ Len(sugg) <= limit
            /\ sugg # <<>> =>
                   /\ response.corrected_address = sugg[1].corrected_address
                   /\ \A k \in 1..Len(pool) :
                          RLeq(pool[k].similarity_score, sugg[1].similarity_score)
                   /\ response.was_corrected
                          <=> PyLower(response.corrected_address) # PyLower(address)
            /\ sugg = <<>> =>
                   /\ response.corrected_address = address
                   /\ ~response.was_corrected
            /\ response.variants_checked = Len(sugg)

\* C29: both dictionaries gave hits, the best one came from the second call,
\* the list was cut and the address counts as corrected
C29_Witness ==
    /\ op = "CorrectAddress" /\ response.code = "OK"
    /\ Len(pool) > limit /\ Len(response.suggestions) = limit
    /\ response.was_corrected
    /\ RLt(pool[1].similarity_score, response.suggestions[1].similarity_score)

(***************************************************************************)
(* The fallback scan against an exhaustive search                          *)
(***************************************************************************)
\* the entries of the street dictionary an exhaustive search would keep
Qualifying ==
    {r \in street_dictionary :
        RLeq(min_similarity, BestSimilarity(PyLower(query), r.normalized_name))}

\* the blended score of a dictionary entry for the query
EntryScore(r) ==
    BlendedScore(StreetResult(r, BestSimilarity(PyLower(query), r.normalized_name)))

\* C30: a fallback scan of correct_street that ends without early exit
\* returns what an exhaustive search returns: the first limit entries, by
\* blended score, of all dictionary entries whose best similarity reaches
\* min_similarity
C30_FallbackIsExhaustive ==
    (op = "correct_street" /\ fallback /\ GoodKept < 2 * limit) =>
        /\ Len(result) = Min2(limit, Cardinality(Qualifying))
        /\ \A i \in ResultIndices :
               \E r \in Qualifying :
                   /\ r.street_name = result[i].street_name
                   /\ REq(BlendedScore(result[i]), EntryScore(r))
        /\ \A i, j \in ResultIndices :
               /\ i # j => result[i].street_name # result[j].street_name
               /\ i < j => RLeq(BlendedScore(result[j]), BlendedScore(result[i]))
        /\ \A r \in Qualifying :
               \/ \E i \in ResultIndices : result[i].street_name = r.street_name
               \/ RLeq(EntryScore(r), BlendedScore(result[Len(result)]))

\* C30: the scan went through the whole dictionary, rejected an entry, and
\* the cut removed an entry that the exhaustive search keeps out as well
C30_Witness ==
    /\ op = "correct_street" /\ fallback /\ GoodKept < 2 * limit
    /\ Cardinality(Qualifying) > limit
    /\ Cardinality(Qualifying) < Cardinality(street_dictionary)
    /\ scanned = Cardinality(street_dictionary)
    /\ \E r \in Qualifying :
           \A i \in ResultIndices : result[i].street_name # r.street_name
    /\ RLt(BlendedScore(result[Len(result)]), BlendedScore(result[1]))

=============================================================================
